---- MODULE Spec2Model ----
(***************************************************************************)
(* Engine One Validator (netlify/functions/netlifyProxy.js, lines 42-486): *)
(* the request handler, the XOR envelope helpers, the two JSON schemas as  *)
(* Ajv evaluates them, normalizeSamlConfig and auditSamlConfig.            *)
(*                                                                         *)
(* JSON values are tagged records.  A string is a sequence of tokens: a    *)
(* token is one whitespace character (" " or "\t") or an indivisible run   *)
(* of other characters; the separators ".", ":", "http://" and "https://"  *)
(* are always tokens of their own, so that trim, toLowerCase, includes and *)
(* split act on the sequence as they act on the characters.                *)
(***************************************************************************)
EXTENDS Integers, Sequences, FiniteSets, TLC

(* ------------------------------------------------------------------ *)
(* JSON values                                                         *)
(* ------------------------------------------------------------------ *)
JUndef == [t |-> "undefined"]
JNull == [t |-> "null"]
JBool(b) == [t |-> "boolean", b |-> b]
JNum(n) == [t |-> "number", n |-> n]
JStr(s) == [t |-> "string", s |-> s]
JArr(a) == [t |-> "array", a |-> a]
JObj(o) == [t |-> "object", o |-> o]

\* a literal of the source: one token
Lit(w) == JStr(<<w>>)
EmptyStr == JStr(<< >>)
EmptyObj == JObj(<< >>)

IsStr(v) == v.t = "string"
IsArr(v) == v.t = "array"
IsObj(v) == v.t = "object"

\* JavaScript typeof v === "object": objects, arrays and null
TypeofObject(v) == v.t \in {"object", "array", "null"}

\* JavaScript truthiness of a JSON value
Truthy(v) ==
    CASE v.t = "undefined" -> FALSE
      [] v.t = "null" -> FALSE
      [] v.t = "boolean" -> v.b
      [] v.t = "number" -> v.n # 0
      [] v.t = "string" -> v.s # << >>
      [] OTHER -> TRUE

\* v[k] for a value that is not null or undefined (those throw)
Get(v, k) ==
    IF IsObj(v) /\ k \in DOMAIN v.o THEN v.o[k] ELSE JUndef

Has(v, k) == IsObj(v) /\ k \in DOMAIN v.o

\* v with v[k] = x, for an object v
Put(v, k, x) ==
    JObj([f \in DOMAIN v.o \cup {k} |-> IF f = k THEN x ELSE v.o[f]])

\* v without the key k, for an object v
Del(v, k) == JObj([f \in DOMAIN v.o \ {k} |-> v.o[f]])

(* ------------------------------------------------------------------ *)
(* Strings                                                             *)
(* ------------------------------------------------------------------ *)
WhiteSpace == {" ", "\t"}

RECURSIVE TrimStart(_)
TrimStart(s) ==
    IF s # << >> /\ Head(s) \in WhiteSpace THEN TrimStart(Tail(s)) ELSE s

RECURSIVE TrimEnd(_)
TrimEnd(s) ==
    IF s # << >> /\ s[Len(s)] \in WhiteSpace
    THEN TrimEnd(SubSeq(s, 1, Len(s) - 1))
    ELSE s

\* one white space character at most taken off each end
TrimOnce(s) ==
    LET a == IF s # << >> /\ Head(s) \in WhiteSpace THEN Tail(s) ELSE s
    IN IF a # << >> /\ a[Len(a)] \in WhiteSpace
       THEN SubSeq(a, 1, Len(a) - 1)
       ELSE a

\* String.prototype.trim
Trim(s) == TrimEnd(TrimStart(s))

\* String.prototype.toLowerCase, token by token
LowerTok(c) ==
    CASE c = "Example" -> "example"
      [] c = "COM" -> "com"
      [] c = "Email" -> "email"
      [] c = "EMAIL" -> "email"
      [] c = "SPEC" -> "spec"
      [] c = "Health" -> "health"
      [] c = "HTTP://" -> "http://"
      [] c = "HTTPS://" -> "https://"
      [] OTHER -> c

ToLowerCase(s) == [i \in 1..Len(s) |-> LowerTok(s[i])]

\* the separators a token holds: itself, and the ":" of a scheme token
CharsOf(c) ==
    IF LowerTok(c) \in {"http://", "https://", "ftp://"} THEN {c, ":"}
    ELSE {c}

\* String.prototype.includes for a separator needle
Includes(s, c) == \E i \in 1..Len(s) : c \in CharsOf(s[i])

(* ------------------------------------------------------------------ *)
(* Sequences helpers                                                   *)
(* ------------------------------------------------------------------ *)
RECURSIVE SetToSeq(_)
SetToSeq(S) ==
    IF S = {} THEN << >>
    ELSE LET x == CHOOSE y \in S : TRUE IN <<x>> \o SetToSeq(S \ {x})

RECURSIVE Flatten(_)
Flatten(ss) ==
    IF ss = << >> THEN << >> ELSE Head(ss) \o Flatten(Tail(ss))

(* ------------------------------------------------------------------ *)
(* The schemas                                                         *)
(* ------------------------------------------------------------------ *)
\* the boolean schema false of additionalProperties: false
FalseSchema == [false |-> TRUE]

NonEmptyString == [type |-> "string", minLength |-> 1]
DateTimeString == [type |-> "string", format |-> "date-time"]

ATTRIBUTE_RULE_SCHEMA ==
    [type |-> "object",
     additionalProperties |-> FalseSchema,
     required |-> <<"name", "names", "array">>,
     properties |->
        [name |-> NonEmptyString,
         names |-> [type |-> "array", minItems |-> 1, items |-> NonEmptyString],
         default |->
            [oneOf |-> <<[type |-> "null"], [type |-> "number"],
                         [type |-> "string"], [type |-> "boolean"],
                         [type |-> "array", items |-> [type |-> "string"]]>>],
         array |-> [type |-> "boolean"]]]

NAME_ID_FORMATS ==
    {<<"urn:oasis:names:tc:SAML:1.1:nameid-format:unspecified">>,
     <<"urn:oasis:names:tc:SAML:2.0:nameid-format:transient">>,
     <<"urn:oasis:names:tc:SAML:1.1:nameid-format:emailAddress">>,
     <<"urn:oasis:names:tc:SAML:2.0:nameid-format:persistent">>}

\* the first arm without its required: at most one, not exactly one
MetadataAtMostOne ==
    <<[not |-> [required |-> <<"metadata_xml">>]],
      [required |-> <<"metadata_xml">>,
       not |-> [required |-> <<"metadata_url">>]]>>

\* oneOf of the saml block: exactly one of metadata_url, metadata_xml
MetadataOneOf ==
    <<[required |-> <<"metadata_url">>,
       not |-> [required |-> <<"metadata_xml">>]],
      [required |-> <<"metadata_xml">>,
       not |-> [required |-> <<"metadata_url">>]]>>

\* the saml block with no lower bound on the entries of keys
SamlBlockSchemaKeysMayBeEmpty ==
    [type |-> "object",
     additionalProperties |-> FalseSchema,
     required |-> <<"id", "entity_id", "attribute_mapping", "name_id_format">>,
     properties |->
        [id |-> NonEmptyString,
         entity_id |-> NonEmptyString,
         metadata_url |-> [type |-> "string", format |-> "uri"],
         metadata_xml |-> NonEmptyString,
         attribute_mapping |->
            [type |-> "object",
             additionalProperties |-> FalseSchema,
             required |-> <<"keys">>,
             properties |->
                [keys |->
                    [type |-> "object",
                     additionalProperties |-> ATTRIBUTE_RULE_SCHEMA]]],
         name_id_format |-> [type |-> "string", enum |-> NAME_ID_FORMATS]],
     oneOf |-> MetadataOneOf]

SAML_BLOCK_SCHEMA ==
    [type |-> "object",
     additionalProperties |-> FalseSchema,
     required |-> <<"id", "entity_id", "attribute_mapping", "name_id_format">>,
     properties |->
        [id |-> NonEmptyString,
         entity_id |-> NonEmptyString,
         metadata_url |-> [type |-> "string", format |-> "uri"],
         metadata_xml |-> NonEmptyString,
         attribute_mapping |->
            [type |-> "object",
             additionalProperties |-> FalseSchema,
             required |-> <<"keys">>,
             properties |->
                [keys |->
                    [type |-> "object",
                     minProperties |-> 1,
                     additionalProperties |-> ATTRIBUTE_RULE_SCHEMA]]],
         name_id_format |-> [type |-> "string", enum |-> NAME_ID_FORMATS]],
     oneOf |-> MetadataOneOf]

\* the domains item schema left open to undeclared properties
DomainItemSchemaOpen ==
    [type |-> "object",
     required |-> <<"id", "domain", "created_at", "updated_at">>,
     properties |->
        [id |-> NonEmptyString,
         domain |-> NonEmptyString,
         created_at |-> DateTimeString,
         updated_at |-> DateTimeString]]

DOMAIN_ITEM_SCHEMA ==
    [type |-> "object",
     additionalProperties |-> FalseSchema,
     required |-> <<"id", "domain", "created_at", "updated_at">>,
     properties |->
        [id |-> NonEmptyString,
         domain |-> NonEmptyString,
         created_at |-> DateTimeString,
         updated_at |-> DateTimeString]]

\* the config schema with no lower bound on the length of domains
SamlConfigSchemaDomainsMayBeEmpty ==
    [type |-> "object",
     additionalProperties |-> FalseSchema,
     required |-> <<"id", "saml", "domains", "created_at", "updated_at">>,
     properties |->
        [id |-> NonEmptyString,
         saml |-> SAML_BLOCK_SCHEMA,
         domains |-> [type |-> "array", items |-> DOMAIN_ITEM_SCHEMA],
         created_at |-> DateTimeString,
         updated_at |-> DateTimeString]]

SAML_CONFIG_SCHEMA ==
    [type |-> "object",
     additionalProperties |-> FalseSchema,
     required |-> <<"id", "saml", "domains", "created_at", "updated_at">>,
     properties |->
        [id |-> NonEmptyString,
         saml |-> SAML_BLOCK_SCHEMA,
         domains |-> [type |-> "array", minItems |-> 1, items |-> DOMAIN_ITEM_SCHEMA],
         created_at |-> DateTimeString,
         updated_at |-> DateTimeString]]

\* the error item schema with none of its five fields required
ErrorItemSchemaPartial ==
    [type |-> "object",
     additionalProperties |-> FalseSchema,
     properties |->
        [domain |-> [type |-> "string"],
         location |-> [type |-> "string"],
         locationType |-> [type |-> "string"],
         message |-> [type |-> "string"],
         reason |-> [type |-> "string"]]]

ERROR_ITEM_SCHEMA ==
    [type |-> "object",
     additionalProperties |-> FalseSchema,
     required |-> <<"domain", "location", "locationType", "message", "reason">>,
     properties |->
        [domain |-> [type |-> "string"],
         location |-> [type |-> "string"],
         locationType |-> [type |-> "string"],
         message |-> [type |-> "string"],
         reason |-> [type |-> "string"]]]

ENVELOPE_SCHEMA ==
    [oneOf |->
        <<[type |-> "object",
           additionalProperties |-> FalseSchema,
           required |-> <<"result">>,
           properties |->
              [result |-> [type |-> "array", items |-> [type |-> "object"]]]],
          [type |-> "object",
           additionalProperties |-> FalseSchema,
           required |-> <<"error">>,
           properties |->
              [error |->
                  [oneOf |->
                      <<[type |-> "string"],
                        [type |-> "object",
                         additionalProperties |-> FalseSchema,
                         required |-> <<"code", "errors", "message", "status">>,
                         properties |->
                            [code |-> [type |-> "number"],
                             status |-> [type |-> "string"],
                             message |-> [type |-> "string"],
                             errors |-> [type |-> "array",
                                         items |-> ERROR_ITEM_SCHEMA]]]>>]]]>>]

(* ------------------------------------------------------------------ *)
(* Ajv: a compiled validator with allErrors                            *)
(* ------------------------------------------------------------------ *)
UriSchemes == {"http://", "https://", "ftp://"}
DateTimeLiterals == {"2025-01-01T00:00:00Z", "2025-06-30T12:00:00+02:00"}

\* ajv-formats "uri": a scheme in either case, then no whitespace
IsUri(s) ==
    /\ s # << >>
    /\ LowerTok(Head(s)) \in UriSchemes
    /\ \A i \in 1..Len(s) : s[i] \notin WhiteSpace

\* ajv-formats "date-time"
IsDateTime(s) == Len(s) = 1 /\ s[1] \in DateTimeLiterals

FormatOk(f, s) ==
    CASE f = "uri" -> IsUri(s)
      [] f = "date-time" -> IsDateTime(s)
      [] OTHER -> TRUE

\* the data type check Ajv generates for the keyword type
TypeMatches(ty, d) == d.t = ty

AjvError(path, kw, msg) ==
    [instancePath |-> path, keyword |-> kw, message |-> msg]

\* the keys of the object d that validation sees
OwnKeys(d) == SetToSeq(DOMAIN d.o)

\* required: a property is missing when its value is undefined
Missing(d, k) == Get(d, k) = JUndef

RECURSIVE AjvValidate(_, _, _)
AjvValidate(s, d, path) ==
    LET has(k) == k \in DOMAIN s
        typeErrs ==
            IF has("type") /\ ~TypeMatches(s.type, d)
            THEN <<AjvError(path, "type", "must be " \o s.type)>>
            ELSE << >>
        enumErrs ==
            IF has("enum") /\ ~(IsStr(d) /\ d.s \in s.enum)
            THEN <<AjvError(path, "enum",
                            "must be equal to one of the allowed values")>>
            ELSE << >>
        notErrs ==
            IF has("not") /\ AjvValidate(s.not, d, path) = << >>
            THEN <<AjvError(path, "not", "must NOT be valid")>>
            ELSE << >>
        oneOfErrs ==
            IF has("oneOf")
            THEN LET subs == [i \in 1..Len(s.oneOf) |->
                                 AjvValidate(s.oneOf[i], d, path)]
                     passing == {i \in 1..Len(s.oneOf) : subs[i] = << >>}
                 IN IF Cardinality(passing) = 1 THEN << >>
                    ELSE Flatten(subs) \o
                         <<AjvError(path, "oneOf",
                                    "must match exactly one schema in oneOf")>>
            ELSE << >>
        stringErrs ==
            IF ~IsStr(d) THEN << >>
            ELSE (IF has("minLength") /\ Len(d.s) < s.minLength
                  THEN <<AjvError(path, "minLength",
                                  "must NOT have fewer characters")>>
                  ELSE << >>)
                 \o
                 (IF has("format") /\ ~FormatOk(s.format, d.s)
                  THEN <<AjvError(path, "format",
                                  "must match format " \o s.format)>>
                  ELSE << >>)
        arrayErrs ==
            IF ~IsArr(d) THEN << >>
            ELSE (IF has("minItems") /\ Len(d.a) < s.minItems
                  THEN <<AjvError(path, "minItems",
                                  "must NOT have fewer items")>>
                  ELSE << >>)
                 \o
                 (IF has("items")
                  THEN Flatten([i \in 1..Len(d.a) |->
                          AjvValidate(s.items, d.a[i],
                                      Append(path, ToString(i - 1)))])
                  ELSE << >>)
        objectErrs ==
            IF ~IsObj(d) THEN << >>
            ELSE LET keys == OwnKeys(d)
                     props == IF has("properties") THEN s.properties ELSE << >>
                     declared == DOMAIN props
                 IN (IF has("minProperties")
                        /\ Cardinality(DOMAIN d.o) < s.minProperties
                     THEN <<AjvError(path, "minProperties",
                                     "must NOT have fewer properties")>>
                     ELSE << >>)
                    \o
                    (IF has("required")
                     THEN Flatten([i \in 1..Len(s.required) |->
                             IF Missing(d, s.required[i])
                             THEN <<AjvError(path, "required",
                                     "must have required property "
                                        \o s.required[i])>>
                             ELSE << >>])
                     ELSE << >>)
                    \o
                    (IF has("additionalProperties")
                     THEN Flatten([i \in 1..Len(keys) |->
                             IF keys[i] \in declared THEN << >>
                             ELSE IF "false" \in DOMAIN s.additionalProperties
                             THEN <<AjvError(path, "additionalProperties",
                                     "must NOT have additional properties")>>
                             ELSE AjvValidate(s.additionalProperties,
                                              d.o[keys[i]],
                                              Append(path, keys[i]))])
                     ELSE << >>)
                    \o
                    (LET ps == SetToSeq(declared)
                     IN Flatten([i \in 1..Len(ps) |->
                            IF Missing(d, ps[i]) THEN << >>
                            ELSE AjvValidate(props[ps[i]], d.o[ps[i]],
                                             Append(path, ps[i]))]))
    IN typeErrs \o enumErrs \o notErrs \o oneOfErrs
       \o stringErrs \o arrayErrs \o objectErrs

\* validateSaml(data) / validateEnvelope(data): the list left in .errors
\* (empty when the call returns true, and .errors is then null)
\* the SAML validator stopping at its first error
validateSamlFirstError(data) ==
    LET errs == AjvValidate(SAML_CONFIG_SCHEMA, data, << >>)
    IN IF errs = << >> THEN errs ELSE <<errs[1]>>

validateSaml(data) == AjvValidate(SAML_CONFIG_SCHEMA, data, << >>)
validateEnvelope(data) == AjvValidate(ENVELOPE_SCHEMA, data, << >>)

(* ------------------------------------------------------------------ *)
(* normalizeSamlConfig                                                 *)
(* ------------------------------------------------------------------ *)
\* a copy of the root alone, as { ...payload } makes
ShallowCopy(v) == [value |-> v, deep |-> FALSE]

\* structuredClone(payload): every node of the copy is a new node
structuredClone(v) == [value |-> v, deep |-> TRUE]

\* is the node at path in the copy the very node of the original?
Aliased(clone, path) == ~clone.deep /\ path # << >>

IsContainer(v) == IsObj(v) \/ IsArr(v)

\* Object.keys(v) of an object or an array
ObjectKeys(v) ==
    IF IsObj(v) THEN SetToSeq(DOMAIN v.o)
    ELSE IF IsArr(v) THEN [i \in 1..Len(v.a) |-> ToString(i - 1)]
    ELSE << >>

IndexOf(v, k) == CHOOSE i \in 1..Len(v.a) : ToString(i - 1) = k

\* v[k] of an object, or of an array for an index key
At(v, k) ==
    IF IsObj(v) THEN Get(v, k)
    ELSE IF IsArr(v) /\ \E i \in 1..Len(v.a) : ToString(i - 1) = k
    THEN v.a[IndexOf(v, k)]
    ELSE JUndef

\* v with the property k of the container at path set to x
RECURSIVE SetAtPath(_, _, _, _)
SetAtPath(v, path, k, x) ==
    IF path = << >> THEN Put(v, k, x)
    ELSE LET h == Head(path)
             sub == SetAtPath(At(v, h), Tail(path), k, x)
         IN IF IsObj(v) THEN Put(v, h, sub)
            ELSE JArr([i \in 1..Len(v.a) |->
                          IF i = IndexOf(v, h) THEN sub ELSE v.a[i]])

\* { ...d, domain } for d that is not null
SpreadWithDomain(d, domain) ==
    CASE IsObj(d) -> Put(d, "domain", domain)
      [] IsArr(d) ->
            Put(JObj([k \in {ToString(i - 1) : i \in 1..Len(d.a)} |->
                        d.a[IndexOf(d, k)]]), "domain", domain)
      [] IsStr(d) ->
            Put(JObj([k \in {ToString(i - 1) : i \in 1..Len(d.s)} |->
                        JStr(<<d.s[CHOOSE i \in 1..Len(d.s) :
                                     ToString(i - 1) = k]>>)]),
                "domain", domain)
      [] OTHER -> Put(EmptyObj, "domain", domain)

\* the callback with the domain trimmed and its case kept
NormalizeDomainTrimOnly(d) ==
    LET dd == Get(d, "domain")
    IN SpreadWithDomain(d, IF IsStr(dd) THEN JStr(Trim(dd.s)) ELSE dd)

\* the callback of out.domains.map
NormalizeDomain(d) ==
    LET dd == Get(d, "domain")
    IN SpreadWithDomain(d, IF IsStr(dd) THEN JStr(ToLowerCase(Trim(dd.s)))
                           ELSE dd)

\* the entries filtered before they are trimmed
NormalizeNamesFilterFirst(names) ==
    LET kept == SelectSeq(names.a, Truthy)
    IN JArr([i \in 1..Len(kept) |->
                IF IsStr(kept[i]) THEN JStr(Trim(kept[i].s)) ELSE kept[i]])

\* the entries trimmed and all of them kept
NormalizeNamesTrimOnly(names) ==
    JArr([i \in 1..Len(names.a) |->
             IF IsStr(names.a[i]) THEN JStr(Trim(names.a[i].s))
             ELSE names.a[i]])

\* m.names.map(trim).filter(Boolean)
NormalizeNames(names) ==
    LET mapped == [i \in 1..Len(names.a) |->
                      IF IsStr(names.a[i]) THEN JStr(Trim(names.a[i].s))
                      ELSE names.a[i]]
    IN JArr(SelectSeq(mapped, Truthy))

\* the assignments of normalizeSamlConfig after the clone, in order, each
\* as <<path of the node written, property, value>>; payload is the value
\* the clone holds
DomainsWrites(v) ==
    IF IsArr(Get(v, "domains"))
    THEN <<[node |-> << >>, key |-> "domains",
            val |-> JArr([i \in 1..Len(Get(v, "domains").a) |->
                            NormalizeDomain(Get(v, "domains").a[i])])]>>
    ELSE << >>

MetadataWrites(v) ==
    LET saml == Get(v, "saml")
        w(k) == IF Truthy(saml) /\ IsStr(At(saml, k))
                THEN <<[node |-> <<"saml">>, key |-> k,
                        val |-> JStr(Trim(At(saml, k).s))]>>
                ELSE << >>
    IN w("metadata_url") \o w("metadata_xml")

KeysWrites(v) ==
    LET keys == Get(Get(Get(v, "saml"), "attribute_mapping"), "keys")
        ks == ObjectKeys(keys)
        at(k) == <<"saml", "attribute_mapping", "keys", k>>
        w(k) ==
            LET m == At(keys, k)
            IN (IF Truthy(m) /\ IsArr(Get(m, "names"))
                THEN <<[node |-> at(k), key |-> "names",
                        val |-> NormalizeNames(Get(m, "names"))]>>
                ELSE << >>)
               \o
               (IF IsStr(Get(m, "name"))
                THEN <<[node |-> at(k), key |-> "name",
                        val |-> JStr(Trim(Get(m, "name").s))]>>
                ELSE << >>)
    IN IF Truthy(keys) /\ TypeofObject(keys)
       THEN Flatten([i \in 1..Len(ks) |-> w(ks[i])])
       ELSE << >>

\* d.domain of a null element throws a TypeError
DomainsThrow(v) ==
    /\ IsArr(Get(v, "domains"))
    /\ \E i \in 1..Len(Get(v, "domains").a) :
          Get(v, "domains").a[i] = JNull

RECURSIVE ApplyWrites(_, _, _, _)
ApplyWrites(v, ws, clone, onOriginal) ==
    IF ws = << >> THEN v
    ELSE LET w == Head(ws)
             hit == ~onOriginal \/ Aliased(clone, w.node)
         IN ApplyWrites(IF hit THEN SetAtPath(v, w.node, w.key, w.val) ELSE v,
                        Tail(ws), clone, onOriginal)

\* the nodes of the result that are nodes of the argument
SharedNodes(out, clone, replaced) ==
    IF clone.deep \/ ~IsObj(out) THEN {}
    ELSE {k \in DOMAIN out.o : IsContainer(out.o[k]) /\ k \notin replaced}

\* normalizeSamlConfig(payload), for a payload with typeof "object":
\*   threw   a TypeError left the function
\*   out     the value returned
\*   after   the argument as the caller sees it after the call
\*   shared  top-level properties of out holding a node of the argument
normalizeSamlConfig(payload) ==
    LET clone == structuredClone(payload)
        v == clone.value
    IN IF DomainsThrow(v)
       THEN [threw |-> TRUE, out |-> JUndef, after |-> payload, shared |-> {}]
       ELSE LET ws == DomainsWrites(v) \o MetadataWrites(v) \o KeysWrites(v)
                out == ApplyWrites(v, ws, clone, FALSE)
            IN [threw |-> FALSE,
                out |-> out,
                after |-> ApplyWrites(payload, ws, clone, TRUE),
                shared |-> SharedNodes(out, clone,
                              IF DomainsWrites(v) # << >> THEN {"domains"}
                              ELSE {})]

(* ------------------------------------------------------------------ *)
(* auditSamlConfig                                                     *)
(* ------------------------------------------------------------------ *)
Finding(severity, code, message, location) ==
    JObj([severity |-> Lit(severity), code |-> Lit(code),
          message |-> Lit(message), location |-> Lit(location)])

\* new URL(s): throws unless s is a scheme followed by something; the
\* protocol it reports is in lower case
NewURL(s) ==
    IF Len(s) >= 2 /\ LowerTok(Head(s)) \in UriSchemes
          /\ \A i \in 1..Len(s) : s[i] \notin WhiteSpace
    THEN [threw |-> FALSE, protocol |-> LowerTok(Head(s))]
    ELSE [threw |-> TRUE, protocol |-> ""]

\* the metadata_url rule with an unparseable URL reported as not https
AuditMetadataUrlCatchAsNotHttps(cfg) ==
    LET url == Get(Get(cfg, "saml"), "metadata_url")
    IN IF ~Truthy(url) THEN << >>
       ELSE IF NewURL(url.s).threw \/ NewURL(url.s).protocol # "https://"
       THEN <<Finding("high", "METADATA_URL_NOT_HTTPS",
                      "metadata_url should be https to avoid MITM.",
                      "payload.saml.metadata_url")>>
       ELSE << >>

AuditMetadataUrl(cfg) ==
    LET url == Get(Get(cfg, "saml"), "metadata_url")
    IN IF ~Truthy(url) THEN << >>
       ELSE IF NewURL(url.s).threw
       THEN <<Finding("high", "METADATA_URL_INVALID",
                      "metadata_url is not a valid URI.",
                      "payload.saml.metadata_url")>>
       ELSE IF NewURL(url.s).protocol # "https://"
       THEN <<Finding("high", "METADATA_URL_NOT_HTTPS",
                      "metadata_url should be https to avoid MITM.",
                      "payload.saml.metadata_url")>>
       ELSE << >>

AuditEntityId(cfg) ==
    LET e == Get(Get(cfg, "saml"), "entity_id")
    IN IF Truthy(e) /\ ~Includes(e.s, ":")
       THEN <<Finding("medium", "ENTITY_ID_SUSPICIOUS",
                      "entity_id is usually a URI; verify it matches your IdP.",
                      "payload.saml.entity_id")>>
       ELSE << >>

\* the domain rules as an else-if chain: at most one finding per binding
AuditDomainFirstOnly(d) ==
    LET dom == Get(d, "domain")
    IN IF ~IsStr(dom) THEN << >>
       ELSE IF Includes(dom.s, " ")
       THEN <<Finding("high", "DOMAIN_HAS_SPACES",
                      "Domain contains spaces; invalid.",
                      "payload.domains[].domain")>>
       ELSE IF Includes(dom.s, "http://") \/ Includes(dom.s, "https://")
       THEN <<Finding("high", "DOMAIN_LOOKS_LIKE_URL",
                      "Domain should be a hostname, not a URL.",
                      "payload.domains[].domain")>>
       ELSE IF ~Includes(dom.s, ".")
       THEN <<Finding("medium", "DOMAIN_MISSING_TLD",
                      "Domain missing a dot/TLD; verify.",
                      "payload.domains[].domain")>>
       ELSE << >>

AuditDomain(d) ==
    LET dom == Get(d, "domain")
    IN IF ~IsStr(dom) THEN << >>
       ELSE (IF Includes(dom.s, " ")
             THEN <<Finding("high", "DOMAIN_HAS_SPACES",
                            "Domain contains spaces; invalid.",
                            "payload.domains[].domain")>>
             ELSE << >>)
            \o
            (IF Includes(dom.s, "http://") \/ Includes(dom.s, "https://")
             THEN <<Finding("high", "DOMAIN_LOOKS_LIKE_URL",
                            "Domain should be a hostname, not a URL.",
                            "payload.domains[].domain")>>
             ELSE << >>)
            \o
            (IF ~Includes(dom.s, ".")
             THEN <<Finding("medium", "DOMAIN_MISSING_TLD",
                            "Domain missing a dot/TLD; verify.",
                            "payload.domains[].domain")>>
             ELSE << >>)

AuditDomains(cfg) ==
    LET ds == Get(cfg, "domains")
    IN IF ~IsArr(ds) THEN << >>
       ELSE Flatten([i \in 1..Len(ds.a) |-> AuditDomain(ds.a[i])])

\* the names of every rule together with the keys of the mapping
PresentNamesWithKeys(keys) ==
    {<<k>> : k \in DOMAIN keys.o}
    \cup
    UNION {
      (IF IsStr(Get(keys.o[k], "name"))
       THEN {ToLowerCase(Get(keys.o[k], "name").s)} ELSE {})
      \cup
      (IF IsArr(Get(keys.o[k], "names"))
       THEN {ToLowerCase(Get(keys.o[k], "names").a[i].s) :
               i \in {j \in 1..Len(Get(keys.o[k], "names").a) :
                        IsStr(Get(keys.o[k], "names").a[j])}}
       ELSE {})
      : k \in DOMAIN keys.o}

\* the lowercased canonical and source names of every rule
PresentNames(keys) ==
    UNION {
      (IF IsStr(Get(keys.o[k], "name"))
       THEN {ToLowerCase(Get(keys.o[k], "name").s)} ELSE {})
      \cup
      (IF IsArr(Get(keys.o[k], "names"))
       THEN {ToLowerCase(Get(keys.o[k], "names").a[i].s) :
               i \in {j \in 1..Len(Get(keys.o[k], "names").a) :
                        IsStr(Get(keys.o[k], "names").a[j])}}
       ELSE {})
      : k \in DOMAIN keys.o}

AuditAttributeMapping(cfg) ==
    LET got == Get(Get(Get(cfg, "saml"), "attribute_mapping"), "keys")
        keys == IF Truthy(got) /\ IsObj(got) THEN got ELSE EmptyObj
    IN IF DOMAIN keys.o = {}
       THEN <<Finding("high", "ATTRIBUTE_MAPPING_EMPTY",
                      "attribute_mapping.keys is empty; users may not map correctly.",
                      "payload.saml.attribute_mapping.keys")>>
       ELSE IF <<"email">> \notin PresentNames(keys)
       THEN <<Finding("medium", "EMAIL_MAPPING_MISSING",
                      "No obvious email attribute mapping detected; verify IdP attributes.",
                      "payload.saml.attribute_mapping.keys")>>
       ELSE << >>

\* the rules with the domain bindings looked at first
auditSamlConfigDomainsFirst(cfg) ==
    AuditDomains(cfg) \o AuditMetadataUrl(cfg) \o AuditEntityId(cfg)
        \o AuditAttributeMapping(cfg)

auditSamlConfig(cfg) ==
    AuditMetadataUrl(cfg) \o AuditEntityId(cfg) \o AuditDomains(cfg)
        \o AuditAttributeMapping(cfg)

(* ------------------------------------------------------------------ *)
(* Envelope helpers                                                    *)
(* ------------------------------------------------------------------ *)
\* JSON.stringify as a reader of the body sees it: properties holding
\* undefined are left out, undefined array elements become null
RECURSIVE Stringify(_)
Stringify(v) ==
    CASE IsObj(v) ->
            JObj([k \in {f \in DOMAIN v.o : v.o[f] # JUndef} |->
                     Stringify(v.o[k])])
      [] IsArr(v) ->
            JArr([i \in 1..Len(v.a) |->
                     IF v.a[i] = JUndef THEN JNull ELSE Stringify(v.a[i])])
      [] OTHER -> v

res(statusCode, body) ==
    [kind |-> "returned", statusCode |-> statusCode, body |-> Stringify(body)]

ok(resultArray) == res(200, JObj([result |-> JArr(resultArray)]))

\* fail with the HTTP status fixed at 400, whatever the error code
failBadRequestStatus(code, status, message, errors) ==
    res(400, JObj([error |->
                     JObj([code |-> JNum(code), status |-> Lit(status),
                           message |-> Lit(message),
                           errors |-> JArr(errors)])]))

fail(code, status, message, errors) ==
    res(code, JObj([error |->
                      JObj([code |-> JNum(code), status |-> Lit(status),
                            message |-> Lit(message),
                            errors |-> JArr(errors)])]))

\* an error item built without its reason
errItemWithoutReason(domain, location, locationType, message, reason) ==
    JObj([domain |-> domain, location |-> location,
          locationType |-> locationType, message |-> message])

errItem(domain, location, locationType, message, reason) ==
    JObj([domain |-> domain, location |-> location,
          locationType |-> locationType, message |-> message,
          reason |-> reason])

\* `payload${e.instancePath}`: the JSON pointer of the node after "payload"
LocationOf(path) == <<"payload">> \o [i \in 1..Len(path) |-> "/" \o path[i]]

\* no location for an error at the root, where instancePath is ""
ajvToErrorsNoRootLocation(errs, domain) ==
    [i \in 1..Len(errs) |->
        errItem(Lit(domain),
                IF errs[i].instancePath # << >>
                THEN JStr(LocationOf(errs[i].instancePath)) ELSE JUndef,
                Lit("body"),
                Lit(errs[i].message),
                Lit(errs[i].keyword))]

ajvToErrors(errs, domain) ==
    [i \in 1..Len(errs) |->
        errItem(Lit(domain),
                JStr(LocationOf(errs[i].instancePath)),
                Lit("body"),
                IF errs[i].message # "" THEN Lit(errs[i].message)
                ELSE Lit("validation error"),
                IF errs[i].keyword # "" THEN Lit(errs[i].keyword)
                ELSE Lit("validation"))]

(* ------------------------------------------------------------------ *)
(* handler                                                             *)
(* ------------------------------------------------------------------ *)
\* String(v): throws for an object that has an own property toString,
\* which JSON data can only make a non-function
RECURSIVE ToStringJS(_)
ToStringJS(v) ==
    CASE v.t = "string" -> [threw |-> FALSE, s |-> v.s]
      [] v.t = "number" -> [threw |-> FALSE, s |-> <<ToString(v.n)>>]
      [] v.t = "boolean" ->
            [threw |-> FALSE, s |-> IF v.b THEN <<"true">> ELSE <<"false">>]
      [] v.t = "null" -> [threw |-> FALSE, s |-> <<"null">>]
      [] v.t = "undefined" -> [threw |-> FALSE, s |-> <<"undefined">>]
      [] v.t = "object" ->
            IF "toString" \in DOMAIN v.o THEN [threw |-> TRUE, s |-> << >>]
            ELSE [threw |-> FALSE, s |-> <<"[object Object]">>]
      [] v.t = "array" ->
            LET part(i) ==
                    IF v.a[i].t \in {"null", "undefined"}
                    THEN [threw |-> FALSE, s |-> << >>]
                    ELSE ToStringJS(v.a[i])
            IN IF \E i \in 1..Len(v.a) : part(i).threw
               THEN [threw |-> TRUE, s |-> << >>]
               ELSE [threw |-> FALSE,
                     s |-> Flatten([i \in 1..Len(v.a) |->
                              IF i = 1 THEN part(i).s
                              ELSE <<",">> \o part(i).s])]

\* parseBody(event): {} for a falsy event.body, null when JSON.parse throws
parseBody(event) ==
    CASE event.body.kind = "absent" -> EmptyObj
      [] event.body.kind = "malformed" -> JNull
      [] OTHER -> event.body.value

Rejected == [kind |-> "rejected", statusCode |-> 0, body |-> JUndef]
NoResponse == [kind |-> "none", statusCode |-> 0, body |-> JUndef]
NoErrors == [set |-> FALSE, list |-> << >>]
NoNorm == [threw |-> FALSE, out |-> JUndef, after |-> JUndef, shared |-> {}]

\* validate.errors after a call: null when valid, else the list
ErrorsAfter(errs) ==
    IF errs = << >> THEN NoErrors ELSE [set |-> TRUE, list |-> errs]

Outcome(response, ran, norm, se, ee) ==
    [response |-> response, ran |-> ran, norm |-> norm,
     samlErrors |-> se, envelopeErrors |-> ee]

handlerOptions(event, se, ee) ==
    Outcome([kind |-> "returned", statusCode |-> 204, body |-> JUndef],
            <<"verb">>, NoNorm, se, ee)

handlerGet(event, se, ee) ==
    LET raw == IF event.rawUrl.valid THEN event.rawUrl.mode ELSE JUndef
        mode == ToLowerCase(IF Truthy(raw) THEN raw.s ELSE <<"health">>)
    IN Outcome(
        IF ~event.rawUrl.valid
        THEN fail(500, "INTERNAL", "health/spec failed",
                  <<errItem(Lit("runtime"), Lit("handler(GET)"),
                            Lit("function"), Lit("Invalid URL"),
                            Lit("exception"))>>)
        ELSE IF mode = <<"spec">>
        THEN ok(<<JObj([type |-> Lit("validator_spec"),
                        modes |-> JArr(<<Lit("validate_saml_config"),
                                         Lit("audit_saml_config"),
                                         Lit("validate_envelope_contract")>>),
                        contracts |-> JArr(<<Lit("xor_envelope")>>)])>>)
        ELSE ok(<<JObj([type |-> Lit("health"), ok |-> JBool(TRUE),
                        runtime |-> JObj([node |-> Lit("v18.0.0")])])>>),
        <<"verb">>, NoNorm, se, ee)

\* the verb gate answering as for a bad request
handlerOtherBadRequest(event, se, ee) ==
    Outcome(fail(400, "INVALID_ARGUMENT", "Use POST", << >>),
            <<"verb">>, NoNorm, se, ee)

handlerOther(event, se, ee) ==
    Outcome(fail(405, "METHOD_NOT_ALLOWED", "Use POST", << >>),
            <<"verb">>, NoNorm, se, ee)

InvalidModeItem ==
    errItem(Lit("request"), Lit("body.mode"), Lit("body"),
            Lit("mode must be one of: validate_saml_config | audit_saml_config | validate_envelope_contract"),
            Lit("invalid_mode"))

InvalidPayloadItem ==
    errItem(Lit("request"), Lit("body.payload"), Lit("body"),
            Lit("payload must be an object"), Lit("invalid_payload"))

\* the tail of the POST path with an audit whose findings fail the request
handlerSamlAuditFatal(mode, payload, se, ee) ==
    LET norm == normalizeSamlConfig(payload)
        errs == validateSaml(norm.out)
        se2 == ErrorsAfter(errs)
        findings == auditSamlConfig(norm.out)
    IN IF norm.threw
       THEN Outcome(Rejected,
                    <<"verb", "parse", "mode", "payload", "normalize">>,
                    norm, se, ee)
       ELSE IF errs # << >>
       THEN Outcome(fail(400, "INVALID_ARGUMENT",
                         "SAML config schema validation failed",
                         ajvToErrors(se2.list, "saml_config")),
                    <<"verb", "parse", "mode", "payload", "normalize",
                      "validate">>,
                    norm, se2, ee)
       ELSE IF mode = <<"audit_saml_config">> /\ findings # << >>
       THEN Outcome(fail(400, "INVALID_ARGUMENT", "SAML config audit failed",
                         << >>),
                    <<"verb", "parse", "mode", "payload", "normalize",
                      "validate", "audit">>,
                    norm, se2, ee)
       ELSE Outcome(ok(<<JObj([type |-> Lit("saml_config_validation"),
                               valid |-> JBool(TRUE),
                               normalized |-> norm.out])>>),
                    <<"verb", "parse", "mode", "payload", "normalize",
                      "validate">>,
                    norm, se2, ee)

\* the tail of the POST path reporting the error list that validateSaml
\* held when the invocation began, if it held one
handlerSamlStaleErrors(mode, payload, se, ee) ==
    LET norm == normalizeSamlConfig(payload)
        errs == validateSaml(norm.out)
        se2 == ErrorsAfter(errs)
    IN IF norm.threw
       THEN Outcome(Rejected,
                    <<"verb", "parse", "mode", "payload", "normalize">>,
                    norm, se, ee)
       ELSE IF errs # << >>
       THEN Outcome(fail(400, "INVALID_ARGUMENT",
                         "SAML config schema validation failed",
                         ajvToErrors(IF se.set THEN se.list ELSE se2.list,
                                     "saml_config")),
                    <<"verb", "parse", "mode", "payload", "normalize",
                      "validate">>,
                    norm, se2, ee)
       ELSE IF mode = <<"audit_saml_config">>
       THEN Outcome(ok(<<JObj([type |-> Lit("saml_config_audit"),
                               valid |-> JBool(TRUE),
                               findings |-> JArr(auditSamlConfig(norm.out)),
                               normalized |-> norm.out])>>),
                    <<"verb", "parse", "mode", "payload", "normalize",
                      "validate", "audit">>,
                    norm, se2, ee)
       ELSE Outcome(ok(<<JObj([type |-> Lit("saml_config_validation"),
                               valid |-> JBool(TRUE),
                               normalized |-> norm.out])>>),
                    <<"verb", "parse", "mode", "payload", "normalize",
                      "validate">>,
                    norm, se2, ee)

\* the tail of the POST path: normalize, validate, audit
handlerSaml(mode, payload, se, ee) ==
    LET norm == normalizeSamlConfig(payload)
        errs == validateSaml(norm.out)
        se2 == ErrorsAfter(errs)
    IN IF norm.threw
       THEN Outcome(Rejected,
                    <<"verb", "parse", "mode", "payload", "normalize">>,
                    norm, se, ee)
       ELSE IF errs # << >>
       THEN Outcome(fail(400, "INVALID_ARGUMENT",
                         "SAML config schema validation failed",
                         ajvToErrors(se2.list, "saml_config")),
                    <<"verb", "parse", "mode", "payload", "normalize",
                      "validate">>,
                    norm, se2, ee)
       ELSE IF mode = <<"audit_saml_config">>
       THEN Outcome(ok(<<JObj([type |-> Lit("saml_config_audit"),
                               valid |-> JBool(TRUE),
                               findings |-> JArr(auditSamlConfig(norm.out)),
                               normalized |-> norm.out])>>),
                    <<"verb", "parse", "mode", "payload", "normalize",
                      "validate", "audit">>,
                    norm, se2, ee)
       ELSE Outcome(ok(<<JObj([type |-> Lit("saml_config_validation"),
                               valid |-> JBool(TRUE),
                               normalized |-> norm.out])>>),
                    <<"verb", "parse", "mode", "payload", "normalize",
                      "validate">>,
                    norm, se2, ee)

handlerPost(event, se, ee) ==
    LET body == parseBody(event)
        rawMode == Get(body, "mode")
        str == ToStringJS(IF Truthy(rawMode) THEN rawMode ELSE EmptyStr)
        mode == Trim(str.s)
        payload == Get(body, "payload")
    IN IF ~Truthy(body)
       THEN Outcome(fail(400, "INVALID_ARGUMENT", "Body must be valid JSON",
                         << >>),
                    <<"verb", "parse">>, NoNorm, se, ee)
       ELSE IF str.threw
       THEN Outcome(Rejected, <<"verb", "parse", "mode">>, NoNorm, se, ee)
       ELSE IF mode = <<"validate_envelope_contract">>
       THEN LET errs == validateEnvelope(payload)
                ee2 == ErrorsAfter(errs)
            IN Outcome(
                 IF errs # << >>
                 THEN fail(400, "INVALID_ARGUMENT",
                           "Envelope contract validation failed",
                           ajvToErrors(ee2.list, "envelope"))
                 ELSE ok(<<JObj([type |-> Lit("envelope_validation"),
                                 valid |-> JBool(TRUE)])>>),
                 <<"verb", "parse", "mode", "validate">>, NoNorm, se, ee2)
       ELSE IF mode # <<"validate_saml_config">>
               /\ mode # <<"audit_saml_config">>
       THEN Outcome(fail(400, "INVALID_ARGUMENT", "Invalid mode",
                         <<InvalidModeItem>>),
                    <<"verb", "parse", "mode">>, NoNorm, se, ee)
       ELSE IF ~Truthy(payload) \/ ~TypeofObject(payload)
       THEN Outcome(fail(400, "INVALID_ARGUMENT", "payload must be an object",
                         <<InvalidPayloadItem>>),
                    <<"verb", "parse", "mode", "payload">>, NoNorm, se, ee)
       ELSE handlerSaml(mode, payload, se, ee)

\* the handler as a whole: the async function has no await, so an
\* invocation runs from its first statement to its return before any
\* other invocation of the process starts
handler(event, se, ee) ==
    CASE event.httpMethod = "OPTIONS" -> handlerOptions(event, se, ee)
      [] event.httpMethod = "GET" -> handlerGet(event, se, ee)
      [] event.httpMethod = "POST" -> handlerPost(event, se, ee)
      [] OTHER -> handlerOther(event, se, ee)

(* ------------------------------------------------------------------ *)
(* Requests                                                            *)
(* ------------------------------------------------------------------ *)
MaxDomains == 2
MaxNames == 2

SeqsUpTo(S, n) == UNION {[1..k -> S] : k \in 0..n}

TS == Lit("2025-01-01T00:00:00Z")
HttpsUrl == JStr(<<"https://", "example", ".", "com", "/metadata.xml">>)
HttpUrl == JStr(<<"http://", "example", ".", "com", "/metadata.xml">>)
Xml == JStr(<<"<EntityDescriptor/>">>)

EmailRule ==
    JObj([name |-> Lit("email"), names |-> JArr(<<Lit("email")>>),
          array |-> JBool(FALSE)])

BaseSaml ==
    JObj([id |-> Lit("s"), entity_id |-> Lit("e"),
          metadata_url |-> HttpsUrl,
          attribute_mapping |-> JObj([keys |-> JObj([email |-> EmailRule])]),
          name_id_format |->
             Lit("urn:oasis:names:tc:SAML:1.1:nameid-format:emailAddress")])

DomainElem(domain) ==
    JObj([id |-> Lit("d"), domain |-> domain,
          created_at |-> TS, updated_at |-> TS])

\* the Quick test payload of the README
BaseConfig ==
    JObj([id |-> Lit("x"), saml |-> BaseSaml,
          domains |-> JArr(<<DomainElem(JStr(<<"Example", ".", "COM">>))>>),
          created_at |-> TS, updated_at |-> TS])

WithSaml(cfg, k, x) == Put(cfg, "saml", Put(Get(cfg, "saml"), k, x))
WithoutSaml(cfg, k) == Put(cfg, "saml", Del(Get(cfg, "saml"), k))
WithKeys(cfg, keys) ==
    WithSaml(cfg, "attribute_mapping", JObj([keys |-> keys]))

\* saml.metadata_url / saml.metadata_xml set to x, or removed for undefined
WithMeta(cfg, k, x) ==
    IF x = JUndef THEN WithoutSaml(cfg, k) ELSE WithSaml(cfg, k, x)

MetaUrlVals ==
    {JUndef, HttpsUrl, HttpUrl,
     JStr(<<" ", "https://", "example", ".", "com", "\t">>),
     JStr(<<"http://">>),
     JStr(<<"ftp://", "example", ".", "com">>),
     JStr(<<"HTTPS://", "Example", ".", "com">>),
     JStr(<<"not", " ", "a", " ", "uri">>),
     JNum(5)}

MetaXmlVals == {JUndef, Xml, JStr(<<" ", "<EntityDescriptor/>", " ">>),
                JStr(<<" ", " ">>), EmptyStr, JNull}

MetaPayloads ==
    {WithMeta(WithMeta(BaseConfig, "metadata_url", u), "metadata_xml", x) :
        u \in MetaUrlVals, x \in MetaXmlVals}

DomainStrs ==
    {<<"Example", ".", "COM">>,
     <<" ", "example", ".", "com", "\t">>,
     <<" ", " ", "a", ".", "b">>,
     <<"a", " ", "b">>,
     <<"HTTP://", "x", "\t", "y", ".", "com">>,
     <<" ">>,
     << >>}

DomainElems ==
    {DomainElem(JStr(s)) : s \in DomainStrs}
    \cup {JNull, JNum(5), Lit("str"), JArr(<<JNum(1)>>),
          DomainElem(JNum(7)),
          Del(DomainElem(Lit("a")), "domain"),
          Put(DomainElem(Lit("a")), "verified", JBool(TRUE)),
          Put(DomainElem(Lit("a")), "created_at", Lit("yesterday"))}

DomainsVals ==
    {JArr(ds) : ds \in SeqsUpTo(DomainElems, MaxDomains)}
    \cup {JNull, Lit("example.com"), EmptyObj}

DomainsPayloads ==
    {Put(BaseConfig, "domains", d) : d \in DomainsVals}
    \cup {Del(BaseConfig, "domains")}

NameItems ==
    {Lit("email"), JStr(<<" ", "Email", "\t">>), Lit("uid"),
     EmptyStr, JStr(<<" ", "\t">>), JNum(0), JNum(3), JNull}

NamesVals ==
    {JArr(ns) : ns \in SeqsUpTo(NameItems, MaxNames)}
    \cup {Lit("email"), JNull}

NameVals ==
    {Lit("email"), JStr(<<" ", "EMAIL", " ">>), JStr(<<" ">>), EmptyStr,
     Lit("uid"), JNum(1)}

RuleVals ==
    {Put(EmailRule, "names", n) : n \in NamesVals}
    \cup {Put(Put(EmailRule, "names", JArr(<<Lit("uid")>>)), "name", n) :
             n \in NameVals}
    \cup {Del(EmailRule, "name"), Del(EmailRule, "names"),
          Del(EmailRule, "array"),
          Put(EmailRule, "array", Lit("no")),
          Put(EmailRule, "default", JNull),
          Put(EmailRule, "default", JArr(<<Lit("a")>>)),
          Put(EmailRule, "default", JArr(<<JNum(1)>>)),
          Put(EmailRule, "default", EmptyObj),
          Put(EmailRule, "required", JBool(TRUE)),
          JNull, JNum(5), Lit("email"), JArr(<<Lit("email")>>), EmptyObj}

KeysVals ==
    {JObj([email |-> r]) : r \in RuleVals}
    \cup {JObj([uid |-> EmailRule, mail |-> r]) :
             r \in {JNull, Put(EmailRule, "name", JStr(<<" ">>)),
                    Put(EmailRule, "names", JArr(<<EmptyStr>>))}}
    \cup {EmptyObj, JArr(<< >>), JArr(<<EmailRule>>), JNull, Lit("keys")}

KeysPayloads ==
    {WithKeys(BaseConfig, k) : k \in KeysVals}
    \cup {WithSaml(BaseConfig, "attribute_mapping", a) :
             a \in {EmptyObj, JNull, JArr(<< >>)}}
    \cup {WithoutSaml(BaseConfig, "attribute_mapping")}

\* one property outside the declared set, at each level of the schema
ExtraLevels == {"root", "saml", "attribute_mapping", "rule", "domain"}

WithExtra(cfg, level) ==
    CASE level = "root" -> Put(cfg, "extra", JNum(1))
      [] level = "saml" -> WithSaml(cfg, "extra", JNum(1))
      [] level = "attribute_mapping" ->
            WithSaml(cfg, "attribute_mapping",
                     Put(Get(Get(cfg, "saml"), "attribute_mapping"),
                         "extra", JNum(1)))
      [] level = "rule" ->
            WithKeys(cfg, JObj([email |-> Put(EmailRule, "extra", JNum(1))]))
      [] level = "domain" ->
            Put(cfg, "domains",
                JArr(<<Put(DomainElem(Lit("a.example")), "extra", JNum(1))>>))
      [] OTHER -> cfg

ExtraPayloads ==
    {WithExtra(WithMeta(WithMeta(BaseConfig, "metadata_url", u),
                        "metadata_xml", x), l) :
        l \in ExtraLevels, u \in {JUndef, HttpsUrl}, x \in {JUndef, Xml}}

FieldVals == {JUndef, JNull, JNum(1), EmptyStr, Lit("e"),
              JStr(<<" ", "urn", ":", "idp", " ">>), Lit("yesterday")}

FieldPayloads ==
    {IF x = JUndef THEN Del(BaseConfig, k) ELSE Put(BaseConfig, k, x) :
        k \in {"id", "saml", "created_at", "updated_at"}, x \in FieldVals}
    \cup {WithMeta(BaseConfig, k, x) :
        k \in {"id", "entity_id", "name_id_format"}, x \in FieldVals}

NonObjectPayloads ==
    {JUndef, JNull, JNum(0), JNum(5), EmptyStr, Lit("x"),
     JBool(FALSE), JBool(TRUE), JArr(<< >>), JArr(<<BaseConfig>>)}

ErrorDetail ==
    JObj([code |-> JNum(400), status |-> Lit("INVALID_ARGUMENT"),
          message |-> Lit("m"), errors |-> JArr(<<InvalidModeItem>>)])

EnvelopePayloads ==
    {JObj([result |-> JArr(<< >>)]),
     JObj([result |-> JArr(<<EmptyObj>>)]),
     JObj([result |-> JArr(<<JNum(1)>>)]),
     JObj([result |-> EmptyObj]),
     JObj([error |-> Lit("boom")]),
     JObj([error |-> ErrorDetail]),
     JObj([error |-> Del(ErrorDetail, "errors")]),
     JObj([error |-> Put(ErrorDetail, "code", Lit("400"))]),
     JObj([error |-> Put(ErrorDetail, "errors",
                         JArr(<<Del(InvalidModeItem, "reason")>>))]),
     JObj([error |-> JNum(5)]),
     JObj([result |-> JArr(<< >>), error |-> Lit("boom")]),
     JObj([result |-> JArr(<< >>), extra |-> JNum(1)]),
     JObj([result |-> JArr(<<EmptyObj, BaseConfig>>)]),
     JObj([result |-> JArr(<<JArr(<< >>)>>)]),
     JObj([result |-> JArr(<<EmptyObj, JNull>>)]),
     JObj([result |-> JNull]),
     JObj([error |-> EmptyStr]),
     JObj([error |-> JNull]),
     JObj([error |-> JArr(<<Lit("boom")>>)]),
     JObj([error |-> EmptyObj]),
     JObj([error |-> Lit("boom"), extra |-> JNum(1)]),
     JObj([extra |-> JNum(1)]),
     JObj([error |-> Put(ErrorDetail, "errors", JArr(<< >>))]),
     JObj([error |-> Put(ErrorDetail, "errors", EmptyObj)]),
     JObj([error |-> Put(ErrorDetail, "errors", JArr(<<Lit("item")>>))]),
     JObj([error |-> Put(ErrorDetail, "errors",
                         JArr(<<InvalidModeItem, InvalidPayloadItem>>))]),
     JObj([error |-> Put(ErrorDetail, "errors",
                         JArr(<<Put(InvalidModeItem, "extra", JNum(1))>>))]),
     JObj([error |-> Put(ErrorDetail, "errors",
                         JArr(<<Put(InvalidModeItem, "domain", JNum(1))>>))]),
     JObj([error |-> Put(ErrorDetail, "errors",
                         JArr(<<Put(InvalidModeItem, "message", EmptyStr)>>))]),
     JObj([error |-> Put(ErrorDetail, "extra", JNum(1))]),
     JObj([error |-> Put(ErrorDetail, "status", JNum(400))]),
     JObj([error |-> Del(ErrorDetail, "message")]),
     JObj([error |-> Put(ErrorDetail, "code", JNum(0))]),
     EmptyObj}

\* several departures from BaseConfig at once
CrossPayloads ==
    {LET a == IF l = "none" THEN BaseConfig ELSE WithExtra(BaseConfig, l)
         b == WithSaml(a, "name_id_format", nid)
         c == IF noId THEN Del(b, "id") ELSE b
         d == IF ds = JUndef THEN c ELSE Put(c, "domains", ds)
     IN IF emptyKeys THEN WithKeys(d, EmptyObj) ELSE d :
        l \in ExtraLevels \cup {"none"},
        nid \in {Get(BaseSaml, "name_id_format"), Lit("bogus")},
        noId \in BOOLEAN,
        ds \in {JUndef, JArr(<< >>), JArr(<<JNull>>)},
        emptyKeys \in BOOLEAN}

\* schema-valid configs that set off the audit rules in every combination
AuditDomainStrs ==
    {<<"http://", "a", " ", "b">>,
     <<"a", " ", "b">>,
     <<"https://", "x", ".", "y">>,
     <<"example", ".", "com">>}

UidRule ==
    JObj([name |-> Lit("uid"), names |-> JArr(<<Lit("uid")>>),
          array |-> JBool(FALSE)])

AuditPayloads ==
    {Put(WithKeys(WithSaml(WithSaml(BaseConfig, "metadata_url", u),
                           "entity_id", e), keys),
         "domains", JArr([i \in 1..Len(ds) |-> DomainElem(JStr(ds[i]))])) :
        u \in {HttpsUrl, HttpUrl, JStr(<<"http://">>)},
        e \in {Lit("e"), JStr(<<"urn", ":", "idp">>)},
        keys \in {JObj([email |-> EmailRule]), JObj([uid |-> UidRule])},
        ds \in SeqsUpTo(AuditDomainStrs, MaxDomains) \ {<< >>}}

SamlPayloads ==
    MetaPayloads \cup DomainsPayloads \cup KeysPayloads \cup ExtraPayloads
        \cup FieldPayloads \cup CrossPayloads \cup AuditPayloads

SamlModes == {Lit("validate_saml_config"), Lit("audit_saml_config")}

RecognizedModes ==
    SamlModes \cup
    {Lit("validate_envelope_contract"),
     JStr(<<" ", "audit_saml_config", "\t">>),
     JArr(<<Lit("validate_saml_config")>>)}

OtherModes ==
    {JUndef, JNull, EmptyStr, JStr(<<" ">>), Lit("bogus"),
     Lit("VALIDATE_SAML_CONFIG"), JNum(5), JBool(TRUE), EmptyObj,
     JObj([toString |-> JNum(1)]),
     JArr(<<Lit("validate_saml_config"), Lit("audit_saml_config")>>),
     JArr(<<JObj([toString |-> JNum(1)])>>)}

FewPayloads ==
    NonObjectPayloads \cup
    {BaseConfig, EmptyObj, Put(BaseConfig, "domains", JArr(<<JNull>>)),
     WithKeys(BaseConfig, EmptyObj)}

PostBody(mode, payload) ==
    JObj([k \in {f \in {"mode", "payload"} :
                   IF f = "mode" THEN mode # JUndef ELSE payload # JUndef} |->
             IF k = "mode" THEN mode ELSE payload])

JsonBodies ==
    {PostBody(m, p) : m \in SamlModes, p \in SamlPayloads}
    \cup {PostBody(m, p) : m \in RecognizedModes \cup OtherModes,
                           p \in FewPayloads \cup EnvelopePayloads}
    \cup {JNull, JNum(0), JNum(5), JBool(FALSE), JBool(TRUE), EmptyStr,
          Lit("validate_saml_config"), JArr(<< >>),
          JArr(<<Lit("validate_saml_config"), BaseConfig>>)}

PostBodies ==
    {[kind |-> "absent", value |-> JUndef],
     [kind |-> "malformed", value |-> JUndef]}
    \cup {[kind |-> "json", value |-> b] : b \in JsonBodies}

NoUrl == [valid |-> TRUE, mode |-> JNull]

RawUrls ==
    {[valid |-> TRUE, mode |-> m] :
        m \in {JNull, EmptyStr, Lit("health"), Lit("Health"), Lit("spec"),
               Lit("SPEC"), Lit("bogus"), Lit("validate_saml_config")}}
    \cup {[valid |-> FALSE, mode |-> JNull]}

Event(method, rawUrl, body) ==
    [httpMethod |-> method, rawUrl |-> rawUrl, body |-> body]

OtherMethods == {"PUT", "DELETE", "PATCH", "HEAD", "post"}

Requests ==
    {Event("POST", NoUrl, b) : b \in PostBodies}
    \cup {Event("GET", u, b) : u \in RawUrls,
             b \in {[kind |-> "absent", value |-> JUndef],
                    [kind |-> "json",
                     value |-> PostBody(Lit("validate_saml_config"),
                                        BaseConfig)]}}
    \cup {Event(m, NoUrl, b) : m \in OtherMethods \cup {"OPTIONS"},
             b \in {[kind |-> "absent", value |-> JUndef],
                    [kind |-> "malformed", value |-> JUndef],
                    [kind |-> "json",
                     value |-> PostBody(Lit("validate_saml_config"),
                                        BaseConfig)]}}

\* the requests that may follow another one in the same process
FollowUps ==
    {Event("POST", NoUrl, [kind |-> "json", value |-> PostBody(m, p)]) :
        m \in {Lit("validate_saml_config"),
               Lit("validate_envelope_contract")},
        p \in {BaseConfig, WithKeys(BaseConfig, EmptyObj),
               JObj([error |-> Lit("boom")])}}
    \cup {Event("GET", NoUrl, [kind |-> "absent", value |-> JUndef])}

(* ------------------------------------------------------------------ *)
(* The state machine                                                   *)
(* ------------------------------------------------------------------ *)
VARIABLES
    event,                  \* the request being served
    pc,                     \* "pending": handler not yet run; "done"
    response,               \* what the handler's promise settled to
    ran,                    \* the gates the invocation went through
    norm,                   \* the normalizeSamlConfig call of the invocation
    validateSamlErrors,     \* validateSaml.errors
    validateEnvelopeErrors  \* validateEnvelope.errors

vars == <<event, pc, response, ran, norm, validateSamlErrors,
          validateEnvelopeErrors>>

Init ==
    /\ event \in Requests
    /\ pc = "pending"
    /\ response = NoResponse
    /\ ran = << >>
    /\ norm = NoNorm
    /\ validateSamlErrors = NoErrors
    /\ validateEnvelopeErrors = NoErrors

Settle(o) ==
    /\ pc' = "done"
    /\ response' = o.response
    /\ ran' = o.ran
    /\ norm' = o.norm
    /\ validateSamlErrors' = o.samlErrors
    /\ validateEnvelopeErrors' = o.envelopeErrors
    /\ UNCHANGED event

HandleOptions ==
    /\ pc = "pending"
    /\ event.httpMethod = "OPTIONS"
    /\ Settle(handlerOptions(event, validateSamlErrors,
                             validateEnvelopeErrors))

HandleGet ==
    /\ pc = "pending"
    /\ event.httpMethod = "GET"
    /\ Settle(handlerGet(event, validateSamlErrors, validateEnvelopeErrors))

HandleOther ==
    /\ pc = "pending"
    /\ event.httpMethod \notin {"OPTIONS", "GET", "POST"}
    /\ Settle(handlerOther(event, validateSamlErrors,
                           validateEnvelopeErrors))

HandlePost ==
    /\ pc = "pending"
    /\ event.httpMethod = "POST"
    /\ Settle(handlerPost(event, validateSamlErrors, validateEnvelopeErrors))

\* the platform invokes the handler again in the same process
Invoke ==
    /\ pc = "done"
    /\ \E e \in FollowUps : event' = e
    /\ pc' = "pending"
    /\ response' = NoResponse
    /\ ran' = << >>
    /\ norm' = NoNorm
    /\ UNCHANGED <<validateSamlErrors, validateEnvelopeErrors>>

Next == HandleOptions \/ HandleGet \/ HandleOther \/ HandlePost \/ Invoke

Spec == Init /\ [][Next]_vars

(* ------------------------------------------------------------------ *)
(* What a claim reads off a state                                      *)
(* ------------------------------------------------------------------ *)
Done == pc = "done"
Returned == response.kind = "returned"
HasResult == Returned /\ Has(response.body, "result")
HasError == Returned /\ Has(response.body, "error")
ErrorOf == Get(response.body, "error")
ErrorItems == Get(ErrorOf, "errors").a

IsPost == event.httpMethod = "POST"
JsonPost == IsPost /\ event.body.kind = "json"
ReqBody == parseBody(event)
ReqPayload == Get(ReqBody, "payload")

\* the mode of the request as the dispatcher compares it, when String()
\* yields one
ModeString ==
    ToStringJS(IF Truthy(Get(ReqBody, "mode")) THEN Get(ReqBody, "mode")
               ELSE EmptyStr)
ReqModeIs(m) == JsonPost /\ ~ModeString.threw /\ Trim(ModeString.s) = <<m>>
SamlMode == ReqModeIs("validate_saml_config") \/ ReqModeIs("audit_saml_config")
RecognizedMode == SamlMode \/ ReqModeIs("validate_envelope_contract")

Is400 ==
    /\ HasError
    /\ response.statusCode = 400
    /\ Get(ErrorOf, "code") = JNum(400)
    /\ Get(ErrorOf, "status") = Lit("INVALID_ARGUMENT")

Ran(gate) == \E i \in 1..Len(ran) : ran[i] = gate

Reasons == {Get(ErrorItems[i], "reason") : i \in 1..Len(ErrorItems)}

(* ------------------------------------------------------------------ *)
(* C1 .. C10                                                           *)
(* ------------------------------------------------------------------ *)

\* C1: every invocation, whatever the method, query, body, mode and
\* payload, ends with a response whose body has exactly one of the
\* fields result and error.
C1_ExactlyOneOfResultError ==
    Done => (HasResult /\ ~HasError) \/ (HasError /\ ~HasResult)

\* C2: every POST whose body is parseable JSON ends with a returned
\* response: the handler never throws on caller data.
C2_PostNeverThrows ==
    (Done /\ JsonPost) => Returned

\* C3: normalizeSamlConfig is idempotent: whenever it returns out for the
\* payload of a request, it returns out again, unchanged, for out.
C3_NormalizeIdempotent ==
    (Done /\ Ran("normalize") /\ ~norm.threw) =>
        /\ ~normalizeSamlConfig(norm.out).threw
        /\ normalizeSamlConfig(norm.out).out = norm.out

\* C3 witness: a normalization that changed its payload, and whose result
\* a second normalization leaves alone
C3_Witness ==
    /\ Done /\ Ran("normalize") /\ ~norm.threw
    /\ norm.out # ReqPayload
    /\ normalizeSamlConfig(norm.out).out = norm.out

\* C4: normalizeSamlConfig leaves its argument as it was, at every level,
\* and no node of the value it returns is a node of the argument.
C4_NormalizeDoesNotMutate ==
    (Done /\ Ran("normalize")) =>
        /\ norm.after = ReqPayload
        /\ norm.shared = {}

\* C4 witness: a normalization that rewrote the metadata URL, a source-name
\* list and a domain in its result, with the argument intact
C4_Witness ==
    /\ Done /\ Ran("normalize") /\ ~norm.threw
    /\ IsObj(ReqPayload)
    /\ \E k \in {"saml", "domains"} :
          Has(ReqPayload, k) /\ Get(norm.out, k) # Get(ReqPayload, k)
    /\ norm.after = ReqPayload
    /\ norm.shared = {}

Accepted ==
    /\ HasResult
    /\ Get(Get(response.body, "result").a[1], "valid") = JBool(TRUE)

ReqSaml == Get(ReqPayload, "saml")

\* the payload is accepted once its saml block carries one valid
\* metadata_url and no metadata_xml: every other field is valid
OtherFieldsValid(p) ==
    /\ IsObj(p) /\ IsObj(Get(p, "saml"))
    /\ LET q == WithMeta(WithMeta(p, "metadata_url", HttpsUrl),
                         "metadata_xml", JUndef)
       IN /\ ~normalizeSamlConfig(q).threw
          /\ validateSaml(normalizeSamlConfig(q).out) = << >>

\* a metadata field that is present holds a value of its own kind
MetaValuesValid(saml) ==
    /\ Has(saml, "metadata_url") =>
          /\ IsStr(Get(saml, "metadata_url"))
          /\ IsUri(Trim(Get(saml, "metadata_url").s))
    /\ Has(saml, "metadata_xml") =>
          /\ IsStr(Get(saml, "metadata_xml"))
          /\ Trim(Get(saml, "metadata_xml").s) # << >>

\* C5: with every other field valid (and the metadata fields that are
\* present well-formed), a config is accepted if and only if exactly one
\* of saml.metadata_url and saml.metadata_xml is present.
C5_ExactlyOneMetadata ==
    (Done /\ SamlMode /\ OtherFieldsValid(ReqPayload)
          /\ MetaValuesValid(ReqSaml)) =>
        (Accepted <=>
            (Has(ReqSaml, "metadata_url") # Has(ReqSaml, "metadata_xml")))

\* C5 witness: both metadata fields present and well-formed, everything
\* else valid, and the config rejected by the oneOf of the saml block
C5_Witness ==
    /\ Done /\ SamlMode /\ OtherFieldsValid(ReqPayload)
    /\ MetaValuesValid(ReqSaml)
    /\ Has(ReqSaml, "metadata_url") /\ Has(ReqSaml, "metadata_xml")
    /\ Is400
    /\ Lit("oneOf") \in Reasons

\* the locations of the objects of p that carry a property outside the
\* declared set, at the five levels of the schema
UndeclaredAt(p) ==
    LET saml == Get(p, "saml")
        am == Get(saml, "attribute_mapping")
        keys == Get(am, "keys")
        ds == Get(p, "domains")
        extra(v, declared) == IsObj(v) /\ ~(DOMAIN v.o \subseteq declared)
    IN (IF extra(p, {"id", "saml", "domains", "created_at", "updated_at"})
        THEN {<<"payload">>} ELSE {})
       \cup
       (IF extra(saml, {"id", "entity_id", "metadata_url", "metadata_xml",
                        "attribute_mapping", "name_id_format"})
        THEN {<<"payload", "/saml">>} ELSE {})
       \cup
       (IF IsObj(saml) /\ extra(am, {"keys"})
        THEN {<<"payload", "/saml", "/attribute_mapping">>} ELSE {})
       \cup
       (IF IsObj(saml) /\ IsObj(am) /\ IsObj(keys)
        THEN {<<"payload", "/saml", "/attribute_mapping", "/keys", "/" \o k>> :
                k \in {f \in DOMAIN keys.o :
                         extra(keys.o[f],
                               {"name", "names", "default", "array"})}}
        ELSE {})
       \cup
       (IF IsArr(ds)
        THEN {<<"payload", "/domains", "/" \o ToString(i - 1)>> :
                i \in {j \in 1..Len(ds.a) :
                         extra(ds.a[j], {"id", "domain", "created_at",
                                         "updated_at"})}}
        ELSE {})

ItemAt(loc, reason) ==
    \E i \in 1..Len(ErrorItems) :
        /\ Get(ErrorItems[i], "location") = JStr(loc)
        /\ Get(ErrorItems[i], "reason") = Lit(reason)

\* C6: a config with a property outside the declared set, at the root, in
\* the saml block, in attribute_mapping, in an attribute rule or in a
\* domains element, is never accepted; when the handler answers, it is
\* with 400 INVALID_ARGUMENT and an additionalProperties item at each such
\* object.
C6_ClosedSchema ==
    (Done /\ SamlMode /\ IsObj(ReqPayload)
          /\ UndeclaredAt(ReqPayload) # {}) =>
        /\ ~HasResult
        /\ Returned =>
              /\ Is400
              /\ \A loc \in UndeclaredAt(ReqPayload) :
                    ItemAt(loc, "additionalProperties")

\* C6 witness: an undeclared property in a domains element as the only
\* departure from a valid config, answered 400
C6_Witness ==
    /\ Done /\ SamlMode /\ IsObj(ReqPayload)
    /\ UndeclaredAt(ReqPayload) = {<<"payload", "/domains", "/0">>}
    /\ Is400
    /\ Len(ErrorItems) = 1

ReqKeys == Get(Get(ReqSaml, "attribute_mapping"), "keys")

\* C7: a config whose saml.attribute_mapping.keys has zero entries is
\* answered 400 INVALID_ARGUMENT in validate_saml_config and in
\* audit_saml_config, never with a success result.
C7_EmptyKeysRejected ==
    (Done /\ SamlMode /\ IsObj(ReqPayload) /\ ReqKeys = EmptyObj) =>
        Is400 /\ ~HasResult

\* validation ran in this invocation and the validator returned false
ValidationFailed ==
    /\ Done /\ Ran("validate")
    /\ \/ SamlMode /\ validateSamlErrors.set
       \/ ReqModeIs("validate_envelope_contract")
             /\ validateEnvelopeErrors.set

FiveFields == {"domain", "location", "locationType", "message", "reason"}

Populated(item) ==
    /\ IsObj(item)
    /\ FiveFields \subseteq DOMAIN item.o
    /\ \A f \in FiveFields : IsStr(item.o[f]) /\ item.o[f].s # << >>

\* C8: whenever schema validation fails, in any of the three POST modes,
\* the response is a 400 INVALID_ARGUMENT error whose errors list is not
\* empty, and every item of it has its five fields present as strings.
C8_ValidationFailureShape ==
    ValidationFailed =>
        /\ Is400
        /\ ErrorItems # << >>
        /\ \A i \in 1..Len(ErrorItems) : Populated(ErrorItems[i])

\* C8 witness: a failed validation whose error sits at the root of the
\* payload, where Ajv leaves instancePath empty
C8_Witness ==
    /\ ValidationFailed
    /\ Is400
    /\ \E i \in 1..Len(ErrorItems) :
          Get(ErrorItems[i], "location") = Lit("payload")

\* C9: a POST whose body is parseable JSON and whose mode is none of the
\* three is answered 400 INVALID_ARGUMENT with exactly one item, of reason
\* invalid_mode, and its payload is neither normalized nor validated.
C9_InvalidMode ==
    (Done /\ JsonPost /\ ~RecognizedMode) =>
        /\ Is400
        /\ Len(ErrorItems) = 1
        /\ Reasons = {Lit("invalid_mode")}
        /\ ~Ran("normalize") /\ ~Ran("validate")

\* C10: in every recognized POST mode a payload that is not a JSON object
\* is answered 400 INVALID_ARGUMENT with exactly one item, before any
\* normalization.
C10_NonObjectPayload ==
    (Done /\ RecognizedMode /\ ~IsObj(ReqPayload)) =>
        /\ Is400
        /\ Len(ErrorItems) = 1
        /\ ~Ran("normalize")

(* ------------------------------------------------------------------ *)
(* C11 .. C20                                                          *)
(* ------------------------------------------------------------------ *)

\* the request of the state with its mode replaced by m
WithMode(m) ==
    Event("POST", NoUrl,
          [kind |-> "json", value |-> Put(ReqBody, "mode", Lit(m))])

\* what the handler answers to the same payload in mode m
ResponseIn(m) ==
    handlerPost(WithMode(m), validateSamlErrors,
                validateEnvelopeErrors).response

ResultOf(r) == Get(r.body, "result").a[1]
FindingsOf(r) == Get(ResultOf(r), "findings").a
FindingCodes(r) ==
    [i \in 1..Len(FindingsOf(r)) |-> Get(FindingsOf(r)[i], "code")]

\* C11: the audit never changes the verdict: for the payload of every
\* request, audit_saml_config answers with an error exactly when
\* validate_saml_config does, with the same status code and the same error
\* (code, status, errors), and when both succeed each result has
\* valid = true and the same normalized value.
C11_AuditKeepsVerdict ==
    (Done /\ ReqModeIs("audit_saml_config") /\ IsObj(ReqBody)) =>
        LET v == ResponseIn("validate_saml_config")
        IN /\ response.kind = v.kind
           /\ response.statusCode = v.statusCode
           /\ HasError <=> Has(v.body, "error")
           /\ HasError =>
                 \A f \in {"code", "status", "errors"} :
                    Get(ErrorOf, f) = Get(Get(v.body, "error"), f)
           /\ HasResult =>
                 /\ Has(v.body, "result")
                 /\ Get(ResultOf(response), "valid") = JBool(TRUE)
                 /\ Get(ResultOf(v), "valid") = JBool(TRUE)
                 /\ Get(ResultOf(response), "normalized")
                       = Get(ResultOf(v), "normalized")

\* C11 witness: an audit that produced findings, for a payload that
\* validate_saml_config accepts with the same normalized value
C11_Witness ==
    /\ Done /\ ReqModeIs("audit_saml_config") /\ IsObj(ReqBody)
    /\ HasResult
    /\ FindingsOf(response) # << >>
    /\ Has(ResponseIn("validate_saml_config").body, "result")
    /\ Get(ResultOf(response), "normalized")
          = Get(ResultOf(ResponseIn("validate_saml_config")), "normalized")

HasFinding(code) ==
    \E i \in 1..Len(FindingsOf(response)) :
        Get(FindingsOf(response)[i], "code") = Lit(code)

\* an accepted audit_saml_config request
Audited == Done /\ ReqModeIs("audit_saml_config") /\ HasResult

\* the submitted metadata_url parses as a URL whose scheme is not https
UrlParsesNotHttps ==
    LET url == Get(ReqSaml, "metadata_url")
    IN /\ IsStr(url)
       /\ ~NewURL(Trim(url.s)).threw
       /\ NewURL(Trim(url.s)).protocol # "https://"

\* C12: for a schema-valid config in audit_saml_config the findings hold
\* a METADATA_URL_NOT_HTTPS finding, of severity high, if and only if
\* metadata_url is present, parses as a URL and its scheme is not https;
\* a config without metadata_url (one using metadata_xml) gets no finding
\* located at metadata_url at all.
C12_MetadataUrlNotHttps ==
    Audited =>
        /\ HasFinding("METADATA_URL_NOT_HTTPS") <=> UrlParsesNotHttps
        /\ \A i \in 1..Len(FindingsOf(response)) :
              Get(FindingsOf(response)[i], "code")
                    = Lit("METADATA_URL_NOT_HTTPS")
                 => Get(FindingsOf(response)[i], "severity") = Lit("high")
        /\ ~Has(ReqSaml, "metadata_url") =>
              \A i \in 1..Len(FindingsOf(response)) :
                  Get(FindingsOf(response)[i], "location")
                     # Lit("payload.saml.metadata_url")

\* C12 witness: an audited config with an http:// metadata URL and the
\* finding in its result
C12_Witness ==
    /\ Audited
    /\ Get(ReqSaml, "metadata_url") = HttpUrl
    /\ HasFinding("METADATA_URL_NOT_HTTPS")

\* an accepted validate_saml_config or audit_saml_config request
AcceptedSaml == Done /\ SamlMode /\ Accepted

NormalizedOf(r) == Get(ResultOf(r), "normalized")

\* C13: for every payload accepted in validate_saml_config or
\* audit_saml_config, the returned normalized.domains has as many
\* elements as the submitted domains, and its i-th domain is the i-th
\* submitted domain trimmed and lowercased.
C13_DomainsNormalized ==
    AcceptedSaml =>
        LET sub == Get(ReqPayload, "domains")
            out == Get(NormalizedOf(response), "domains")
        IN /\ IsArr(sub) /\ IsArr(out)
           /\ Len(out.a) = Len(sub.a)
           /\ \A i \in 1..Len(sub.a) :
                 /\ IsStr(Get(sub.a[i], "domain"))
                 /\ Get(out.a[i], "domain")
                       = JStr(ToLowerCase(Trim(Get(sub.a[i], "domain").s)))

\* C13 witness: the Quick test payload, whose domain Example.COM comes
\* back as example.com with valid = true
C13_Witness ==
    /\ AcceptedSaml
    /\ ReqPayload = BaseConfig
    /\ Get(Get(NormalizedOf(response), "domains").a[1], "domain")
          = JStr(<<"example", ".", "com">>)

\* a complete five-field ErrorItem
CompleteErrorItem(item) ==
    /\ IsObj(item)
    /\ DOMAIN item.o = FiveFields
    /\ \A f \in FiveFields : IsStr(item.o[f])

\* an envelope as the contract words it
EnvelopeOk(p) ==
    /\ IsObj(p)
    /\ \/ /\ DOMAIN p.o = {"result"}
          /\ IsArr(p.o.result)
          /\ \A i \in 1..Len(p.o.result.a) : IsObj(p.o.result.a[i])
       \/ /\ DOMAIN p.o = {"error"}
          /\ \/ IsStr(p.o.error)
             \/ /\ IsObj(p.o.error)
                /\ DOMAIN p.o.error.o
                      = {"code", "status", "message", "errors"}
                /\ p.o.error.o.code.t = "number"
                /\ IsStr(p.o.error.o.status)
                /\ IsStr(p.o.error.o.message)
                /\ IsArr(p.o.error.o.errors)
                /\ \A i \in 1..Len(p.o.error.o.errors.a) :
                      CompleteErrorItem(p.o.error.o.errors.a[i])

EnvelopeMode == Done /\ ReqModeIs("validate_envelope_contract")

\* C14: validate_envelope_contract accepts a payload if and only if it is
\* an object with exactly one of the keys result and error and no other
\* key, result being a list of objects, error a string or an object with
\* exactly code (number), status, message (strings) and errors (a list of
\* complete five-field items); every other payload is answered 400
\* INVALID_ARGUMENT.
C14_EnvelopeContract ==
    EnvelopeMode =>
        /\ Accepted <=> EnvelopeOk(ReqPayload)
        /\ ~EnvelopeOk(ReqPayload) => Is400
        /\ Accepted =>
              Get(response.body, "result")
                 = JArr(<<JObj([type |-> Lit("envelope_validation"),
                                valid |-> JBool(TRUE)])>>)

\* C14 witness: a structured error whose errors list has an item short of
\* one of its five fields, rejected
C14_Witness ==
    /\ EnvelopeMode
    /\ IsObj(Get(ReqPayload, "error"))
    /\ IsArr(Get(Get(ReqPayload, "error"), "errors"))
    /\ Get(Get(ReqPayload, "error"), "errors").a
          = <<Del(InvalidModeItem, "reason")>>
    /\ Is400

SupportedVerbs == {"OPTIONS", "GET", "POST"}

IsError(code, status) ==
    /\ HasError /\ ~HasResult
    /\ response.statusCode = code
    /\ Get(ErrorOf, "code") = JNum(code)
    /\ Get(ErrorOf, "status") = Lit(status)

\* C15: every request whose verb is none of OPTIONS, GET and POST is
\* answered with an error of code 405 and status METHOD_NOT_ALLOWED, and
\* the invocation stops at the verb gate: the body is not parsed, mode and
\* payload are not looked at, nothing is normalized or validated.
C15_MethodNotAllowed ==
    (Done /\ event.httpMethod \notin SupportedVerbs) =>
        /\ IsError(405, "METHOD_NOT_ALLOWED")
        /\ ran = <<"verb">>
        /\ norm = NoNorm

\* C15 witness: a PUT that carries a well-formed validate_saml_config
\* body, answered 405
C15_Witness ==
    /\ Done
    /\ event.httpMethod = "PUT"
    /\ event.body.kind = "json"
    /\ IsError(405, "METHOD_NOT_ALLOWED")

ErrorPairs ==
    {<<JNum(400), Lit("INVALID_ARGUMENT")>>,
     <<JNum(405), Lit("METHOD_NOT_ALLOWED")>>,
     <<JNum(500), Lit("INTERNAL")>>}

\* C16: every error response carries one of the pairs (400,
\* INVALID_ARGUMENT), (405, METHOD_NOT_ALLOWED), (500, INTERNAL) and its
\* HTTP status code equals error.code; every result response has HTTP
\* status 200.
C16_ErrorTaxonomy ==
    Done =>
        /\ HasError =>
              /\ <<Get(ErrorOf, "code"), Get(ErrorOf, "status")>> \in ErrorPairs
              /\ JNum(response.statusCode) = Get(ErrorOf, "code")
        /\ HasResult => response.statusCode = 200

\* C16 witness: the GET whose URL does not parse, answered 500 INTERNAL
\* with HTTP status 500
C16_Witness ==
    /\ Done
    /\ event.httpMethod = "GET"
    /\ HasError
    /\ Get(ErrorOf, "code") = JNum(500)
    /\ Get(ErrorOf, "status") = Lit("INTERNAL")
    /\ response.statusCode = 500

\* what GET mode=spec answers
SpecResponse ==
    handlerGet(Event("GET", [valid |-> TRUE, mode |-> Lit("spec")],
                     [kind |-> "absent", value |-> JUndef]),
               validateSamlErrors, validateEnvelopeErrors).response

\* the modes GET mode=spec lists
AdvertisedModes ==
    {Get(ResultOf(SpecResponse), "modes").a[i] :
        i \in 1..Len(Get(ResultOf(SpecResponse), "modes").a)}

RejectedInvalidMode == Is400 /\ Lit("invalid_mode") \in Reasons

\* C17: the modes listed by GET mode=spec are exactly the POST modes the
\* dispatcher accepts: the mode of a POST body is rejected with reason
\* invalid_mode if and only if it is not in the advertised list; and the
\* spec result carries the xor_envelope contract tag.
C17_AdvertisedModes ==
    /\ (Done /\ JsonPost /\ IsObj(ReqBody)) =>
          (RejectedInvalidMode <=> Get(ReqBody, "mode") \notin AdvertisedModes)
    /\ \E i \in 1..Len(Get(ResultOf(SpecResponse), "contracts").a) :
          Get(ResultOf(SpecResponse), "contracts").a[i] = Lit("xor_envelope")

\* the structural violations of a submitted config that normalization
\* leaves in place, each as the location and the keyword of its error: a
\* required root field missing, a property outside the declared set, a
\* name_id_format outside the four allowed values
ViolationsOf(p) ==
    (IF \E k \in {"id", "saml", "domains", "created_at", "updated_at"} :
            ~Has(p, k)
     THEN {<<<<"payload">>, "required">>} ELSE {})
    \cup {<<loc, "additionalProperties">> : loc \in UndeclaredAt(p)}
    \cup (IF Has(Get(p, "saml"), "name_id_format")
             /\ Get(Get(p, "saml"), "name_id_format") \notin
                   {JStr(f) : f \in NAME_ID_FORMATS}
          THEN {<<<<"payload", "/saml", "/name_id_format">>, "enum">>}
          ELSE {})

\* a SAML request that validation answered
SamlValidated ==
    Done /\ SamlMode /\ IsObj(ReqPayload) /\ Returned /\ Ran("validate")

\* C18: one validation failure response enumerates every structural
\* violation of the payload: for each violating node of the submitted
\* config the errors list holds an item located at that node.
C18_AllViolationsListed ==
    (SamlValidated /\ ViolationsOf(ReqPayload) # {}) =>
        /\ Is400
        /\ \A v \in ViolationsOf(ReqPayload) : ItemAt(v[1], v[2])

\* C18 witness: a config with a required field missing, an unknown
\* property in the saml block and a name_id_format outside the enum, all
\* three reported in one response
C18_Witness ==
    /\ SamlValidated
    /\ ViolationsOf(ReqPayload)
          = {<<<<"payload">>, "required">>,
             <<<<"payload", "/saml">>, "additionalProperties">>,
             <<<<"payload", "/saml", "/name_id_format">>, "enum">>}
    /\ Is400
    /\ Len(ErrorItems) >= 3

\* the place of a finding's rule in the order of evaluation
RuleRank(code) ==
    CASE code \in {Lit("METADATA_URL_NOT_HTTPS"), Lit("METADATA_URL_INVALID")}
            -> 1
      [] code = Lit("ENTITY_ID_SUSPICIOUS") -> 2
      [] code \in {Lit("DOMAIN_HAS_SPACES"), Lit("DOMAIN_LOOKS_LIKE_URL"),
                   Lit("DOMAIN_MISSING_TLD")} -> 3
      [] code \in {Lit("ATTRIBUTE_MAPPING_EMPTY"),
                   Lit("EMAIL_MAPPING_MISSING")} -> 4
      [] OTHER -> 0

HasSpace(s) == \E i \in 1..Len(s) : s[i] = " "
LooksLikeUrl(s) == \E i \in 1..Len(s) : s[i] \in {"http://", "https://"}
HasNoDot(s) == \A i \in 1..Len(s) : s[i] # "."

\* the findings one binding calls for, in the order of its three rules
DomainCodes(s) ==
    (IF HasSpace(s) THEN <<Lit("DOMAIN_HAS_SPACES")>> ELSE << >>)
    \o (IF LooksLikeUrl(s) THEN <<Lit("DOMAIN_LOOKS_LIKE_URL")>> ELSE << >>)
    \o (IF HasNoDot(s) THEN <<Lit("DOMAIN_MISSING_TLD")>> ELSE << >>)

\* the normalized domain strings of the response, in order
NormalizedDomains ==
    [i \in 1..Len(Get(NormalizedOf(response), "domains").a) |->
        Get(Get(NormalizedOf(response), "domains").a[i], "domain").s]

IsDomainCode(code) == RuleRank(code) = 3

\* C19: the findings are in the order of rule evaluation: the metadata-URL
\* finding, then the entity-id finding, then the domain findings binding
\* by binding in the order of domains (within a binding: has-spaces,
\* looks-like-URL, missing-TLD), then the attribute-mapping finding; and
\* auditing the same config again gives the same list.
C19_FindingsOrder ==
    Audited =>
        LET codes == FindingCodes(response)
        IN /\ \A i \in 1..Len(codes) : RuleRank(codes[i]) \in 1..4
           /\ \A i, j \in 1..Len(codes) :
                 i < j => RuleRank(codes[i]) <= RuleRank(codes[j])
           /\ \A i, j \in 1..Len(codes) :
                 (i < j /\ RuleRank(codes[i]) = RuleRank(codes[j]))
                    => RuleRank(codes[i]) = 3
           /\ SelectSeq(codes, IsDomainCode)
                 = Flatten([i \in 1..Len(NormalizedDomains) |->
                               DomainCodes(NormalizedDomains[i])])
           /\ FindingsOf(ResponseIn("audit_saml_config"))
                 = FindingsOf(response)

\* C19 witness: an audit with a finding of each of the four rules, the
\* domain findings coming from two bindings that differ
C19_Witness ==
    /\ Audited
    /\ {RuleRank(FindingCodes(response)[i]) :
           i \in 1..Len(FindingCodes(response))} = 1..4
    /\ Len(NormalizedDomains) = 2
    /\ DomainCodes(NormalizedDomains[1]) # << >>
    /\ DomainCodes(NormalizedDomains[2]) # << >>
    /\ DomainCodes(NormalizedDomains[1]) # DomainCodes(NormalizedDomains[2])

CountOf(code) ==
    Cardinality({i \in 1..Len(FindingsOf(response)) :
                    Get(FindingsOf(response)[i], "code") = Lit(code)})

BindingsWith(P(_)) ==
    Cardinality({i \in 1..Len(NormalizedDomains) : P(NormalizedDomains[i])})

\* some rule of the normalized mapping names email, in any case
EmailMapped(keys) ==
    \E k \in DOMAIN keys.o :
        \/ ToLowerCase(Get(keys.o[k], "name").s) = <<"email">>
        \/ \E i \in 1..Len(Get(keys.o[k], "names").a) :
              ToLowerCase(Get(keys.o[k], "names").a[i].s) = <<"email">>

\* C20: the audit rules are not short-circuited: in every accepted audit
\* each rule's finding is present exactly when the rule's own condition
\* holds on the normalized config, whatever the other rules found, and
\* each domain rule yields one finding per binding that meets it.
C20_RulesIndependent ==
    Audited =>
        LET cfg == NormalizedOf(response)
            url == Get(Get(cfg, "saml"), "metadata_url")
            entity == Get(Get(cfg, "saml"), "entity_id")
            keys == Get(Get(Get(cfg, "saml"), "attribute_mapping"), "keys")
        IN /\ HasFinding("METADATA_URL_INVALID")
                 <=> (IsStr(url) /\ NewURL(url.s).threw)
           /\ HasFinding("METADATA_URL_NOT_HTTPS")
                 <=> (IsStr(url) /\ ~NewURL(url.s).threw
                        /\ NewURL(url.s).protocol # "https://")
           /\ HasFinding("ENTITY_ID_SUSPICIOUS")
                 <=> (\A i \in 1..Len(entity.s) : ":" \notin CharsOf(entity.s[i]))
           /\ CountOf("DOMAIN_HAS_SPACES") = BindingsWith(HasSpace)
           /\ CountOf("DOMAIN_LOOKS_LIKE_URL") = BindingsWith(LooksLikeUrl)
           /\ CountOf("DOMAIN_MISSING_TLD") = BindingsWith(HasNoDot)
           /\ HasFinding("ATTRIBUTE_MAPPING_EMPTY") <=> DOMAIN keys.o = {}
           /\ HasFinding("EMAIL_MAPPING_MISSING")
                 <=> (DOMAIN keys.o # {} /\ ~EmailMapped(keys))

\* C20 witness: one binding with a space, http:// and no dot, which gets
\* all three domain findings, next to findings of the other rules
C20_Witness ==
    /\ Audited
    /\ Len(NormalizedDomains) = 1
    /\ HasSpace(NormalizedDomains[1])
    /\ LooksLikeUrl(NormalizedDomains[1])
    /\ HasNoDot(NormalizedDomains[1])
    /\ CountOf("DOMAIN_HAS_SPACES") = 1
    /\ CountOf("DOMAIN_LOOKS_LIKE_URL") = 1
    /\ CountOf("DOMAIN_MISSING_TLD") = 1
    /\ HasFinding("METADATA_URL_NOT_HTTPS")
    /\ HasFinding("ENTITY_ID_SUSPICIOUS")
    /\ HasFinding("EMAIL_MAPPING_MISSING")

(* ------------------------------------------------------------------ *)
(* C21 .. C30                                                          *)
(* ------------------------------------------------------------------ *)

HasWhiteSpace(s) == \E i \in 1..Len(s) : s[i] \in WhiteSpace

\* C21: in every accepted audit, each domain binding whose normalized
\* domain contains whitespace of any kind (a space, a tab) gets a
\* DOMAIN_HAS_SPACES finding of severity high.
C21_WhitespaceFlagged ==
    Audited =>
        /\ CountOf("DOMAIN_HAS_SPACES") = BindingsWith(HasWhiteSpace)
        /\ \A i \in 1..Len(FindingsOf(response)) :
              Get(FindingsOf(response)[i], "code") = Lit("DOMAIN_HAS_SPACES")
                 => Get(FindingsOf(response)[i], "severity") = Lit("high")

NormalizedKeys ==
    Get(Get(Get(NormalizedOf(response), "saml"), "attribute_mapping"), "keys")

\* C22: in every accepted audit the EMAIL_MAPPING_MISSING finding, of
\* severity medium, is present if and only if no attribute rule has a
\* canonical name or a source name equal to "email" ignoring case; the
\* keys of the mapping play no part, and the finding is emitted at most
\* once.
C22_EmailMappingMissing ==
    Audited =>
        /\ HasFinding("EMAIL_MAPPING_MISSING") <=> ~EmailMapped(NormalizedKeys)
        /\ CountOf("EMAIL_MAPPING_MISSING") <= 1
        /\ \A i \in 1..Len(FindingsOf(response)) :
              Get(FindingsOf(response)[i], "code")
                    = Lit("EMAIL_MAPPING_MISSING")
                 => Get(FindingsOf(response)[i], "severity") = Lit("medium")

\* C22 witness: a mapping whose only key is email and whose rule names
\* uid alone, audited with the finding
C22_Witness ==
    /\ Audited
    /\ DOMAIN NormalizedKeys.o = {"email"}
    /\ ~EmailMapped(NormalizedKeys)
    /\ CountOf("EMAIL_MAPPING_MISSING") = 1

GateOrder ==
    <<"verb", "parse", "mode", "payload", "normalize", "validate", "audit">>

GateRank(g) == CHOOSE i \in 1..Len(GateOrder) : GateOrder[i] = g

\* the earliest gate the request of the state fails, "" when it fails
\* none of the first four
FirstFailingGate ==
    CASE event.httpMethod \notin SupportedVerbs -> "verb"
      [] event.httpMethod # "POST" -> ""
      [] event.body.kind = "malformed" -> "parse"
      [] ~RecognizedMode -> "mode"
      [] SamlMode /\ ~IsObj(ReqPayload) -> "payload"
      [] OTHER -> ""

\* C23: the gates are passed in the order verb, JSON parse, mode, payload
\* shape, normalization, validation, audit, and the first gate a request
\* fails alone determines the response: 405 for the verb, 400 without
\* items for a body that does not parse, the single invalid_mode item for
\* the mode, the single invalid_payload item for the payload; no later
\* gate is run, so nothing is normalized, validated or audited after an
\* earlier failure.
C23_GateOrder ==
    Done =>
        /\ \A i, j \in 1..Len(ran) :
              i < j => GateRank(ran[i]) < GateRank(ran[j])
        /\ FirstFailingGate = "verb" =>
              IsError(405, "METHOD_NOT_ALLOWED") /\ ran = <<"verb">>
        /\ FirstFailingGate = "parse" =>
              Is400 /\ ErrorItems = << >> /\ ran = <<"verb", "parse">>
        /\ FirstFailingGate = "mode" =>
              /\ Is400 /\ Reasons = {Lit("invalid_mode")}
              /\ ran = <<"verb", "parse", "mode">>
        /\ FirstFailingGate = "payload" =>
              /\ Is400 /\ Reasons = {Lit("invalid_payload")}
              /\ ran = <<"verb", "parse", "mode", "payload">>
        /\ (Ran("normalize") /\ norm.threw) => ~Ran("validate")
        /\ ValidationFailed => ~Ran("audit")

\* the zero-entries rule would fire on the config the request normalized to
ZeroEntriesRuleFires ==
    /\ Ran("normalize") /\ ~norm.threw
    /\ \E i \in 1..Len(AuditAttributeMapping(norm.out)) :
          Get(AuditAttributeMapping(norm.out)[i], "code")
             = Lit("ATTRIBUTE_MAPPING_EMPTY")

\* C24: no response of the handler holds an ATTRIBUTE_MAPPING_EMPTY
\* finding: a config on which the zero-entries rule would fire never gets
\* past schema validation, so it is never audited.
C24_EmptyMappingUnreachable ==
    Done =>
        /\ (HasResult /\ Has(ResultOf(response), "findings"))
              => ~HasFinding("ATTRIBUTE_MAPPING_EMPTY")
        /\ ZeroEntriesRuleFires => ~HasResult /\ ~Ran("audit")

\* C24 witness: an audit_saml_config request whose keys object is empty,
\* answered 400 before the audit
C24_Witness ==
    /\ Done /\ ReqModeIs("audit_saml_config")
    /\ ReqKeys = EmptyObj
    /\ ZeroEntriesRuleFires
    /\ Is400
    /\ ~Ran("audit")

\* what the request of the state gets when no other invocation has
\* touched the validators
ResponseAlone == handler(event, NoErrors, NoErrors).response

\* the items that describe the payload of the request of the state
OwnItems ==
    IF SamlMode
    THEN ajvToErrors(validateSaml(normalizeSamlConfig(ReqPayload).out),
                     "saml_config")
    ELSE ajvToErrors(validateEnvelope(ReqPayload), "envelope")

\* C25: invocations that share the compiled validators do not interfere:
\* whatever invocations came before and whatever error lists they left in
\* validateSaml.errors and validateEnvelope.errors, the response is the
\* one the request gets when run alone, and the errors of a validation
\* failure describe the request's own payload.
C25_NoInterference ==
    Done =>
        /\ response = ResponseAlone
        /\ ValidationFailed => ErrorItems = OwnItems

\* C25 witness: a SAML validation failure served while the envelope
\* validator still holds the error list of another request
C25_Witness ==
    /\ Done /\ SamlMode /\ ValidationFailed
    /\ validateEnvelopeErrors.set
    /\ response = ResponseAlone
    /\ ErrorItems = OwnItems

Blank(v) == IsStr(v) /\ Trim(v.s) = << >>
NonBlank(v) == IsStr(v) /\ Trim(v.s) # << >>

\* the rule r with a canonical name and a source-name list that pass
WithGoodNames(r) ==
    IF IsObj(r)
    THEN Put(Put(r, "name", Lit("email")), "names", JArr(<<Lit("email")>>))
    ELSE r

\* a SAML request whose attribute rules carry a string name and a list of
\* string source names, and whose config is valid in every other respect
NamesCase ==
    /\ Done /\ SamlMode /\ IsObj(ReqPayload) /\ IsObj(ReqKeys)
    /\ \A k \in DOMAIN ReqKeys.o :
          /\ IsObj(ReqKeys.o[k])
          /\ IsStr(Get(ReqKeys.o[k], "name"))
          /\ IsArr(Get(ReqKeys.o[k], "names"))
          /\ \A i \in 1..Len(Get(ReqKeys.o[k], "names").a) :
                IsStr(Get(ReqKeys.o[k], "names").a[i])
    /\ LET q == WithSaml(ReqPayload, "attribute_mapping",
                         Put(Get(ReqSaml, "attribute_mapping"), "keys",
                             JObj([k \in DOMAIN ReqKeys.o |->
                                      WithGoodNames(ReqKeys.o[k])])))
       IN /\ ~normalizeSamlConfig(q).threw
          /\ validateSaml(normalizeSamlConfig(q).out) = << >>

TrimmedNonBlank(names) ==
    LET kept == SelectSeq(names.a, NonBlank)
    IN JArr([i \in 1..Len(kept) |-> JStr(Trim(kept[i].s))])

AllNamesBlank(r) ==
    \A i \in 1..Len(Get(r, "names").a) : Blank(Get(r, "names").a[i])

\* C26: normalization runs before validation: a config whose rules each
\* have a non-blank canonical name and at least one non-blank source name
\* is accepted, blank source names notwithstanding, and each returned
\* names list holds the trimmed non-blank entries in their order; a config
\* with a rule whose source names are all blank, or whose canonical name
\* is blank, is answered 400 INVALID_ARGUMENT.
C26_BlankNamesDropped ==
    NamesCase =>
        IF \E k \in DOMAIN ReqKeys.o :
              AllNamesBlank(ReqKeys.o[k]) \/ Blank(Get(ReqKeys.o[k], "name"))
        THEN Is400
        ELSE /\ Accepted
             /\ \A k \in DOMAIN ReqKeys.o :
                   Get(NormalizedKeys.o[k], "names")
                      = TrimmedNonBlank(Get(ReqKeys.o[k], "names"))

\* C26 witness: a source-name list with a blank entry next to a non-blank
\* one, accepted with the blank entry gone
C26_Witness ==
    /\ NamesCase /\ Accepted
    /\ \E k \in DOMAIN ReqKeys.o :
          /\ \E i \in 1..Len(Get(ReqKeys.o[k], "names").a) :
                Blank(Get(ReqKeys.o[k], "names").a[i])
          /\ Len(Get(NormalizedKeys.o[k], "names").a)
                < Len(Get(ReqKeys.o[k], "names").a)

\* v without the properties ks, when v is an object
Without(v, ks) ==
    IF IsObj(v) THEN JObj([f \in DOMAIN v.o \ ks |-> v.o[f]]) ELSE v

\* each entry of an object or element of a list through F, others as is
EachOf(v, F(_)) ==
    CASE IsObj(v) -> JObj([f \in DOMAIN v.o |-> F(v.o[f])])
      [] IsArr(v) -> JArr([i \in 1..Len(v.a) |-> F(v.a[i])])
      [] OTHER -> v

\* v with the property k through F, when v is an object that has it
Through(v, k, F(_)) == IF Has(v, k) THEN Put(v, k, F(v.o[k])) ELSE v

\* a config with the fields the normalization rules cover taken out:
\* domains[i].domain, saml.metadata_url, saml.metadata_xml and the name
\* and names of every attribute rule
Uncovered(p) ==
    LET bind(d) == Without(d, {"domain"})
        rule(r) == Without(r, {"name", "names"})
        keys(ks) == EachOf(ks, rule)
        mapping(am) == Through(am, "keys", keys)
        saml(sm) == Through(Without(sm, {"metadata_url", "metadata_xml"}),
                            "attribute_mapping", mapping)
        domains(ds) == IF IsArr(ds) THEN EachOf(ds, bind) ELSE ds
    IN Through(Through(p, "saml", saml), "domains", domains)

Normalized == Done /\ Ran("normalize") /\ ~norm.threw

\* C27: normalizeSamlConfig changes only domains[i].domain,
\* saml.metadata_url, saml.metadata_xml and the name and names of each
\* attribute rule: with those taken out, the value it returns equals its
\* argument.
C27_FrameEffect ==
    Normalized => Uncovered(norm.out) = Uncovered(ReqPayload)

\* the request that submits p to mode m
Submit(m, p) ==
    Event("POST", NoUrl, [kind |-> "json", value |-> PostBody(Lit(m), p)])

\* what the handler answers to that request
Answer(m, p) ==
    handler(Submit(m, p), validateSamlErrors, validateEnvelopeErrors).response

AcceptedBy(r) ==
    /\ r.kind = "returned"
    /\ Has(r.body, "result")
    /\ Get(Get(r.body, "result").a[1], "valid") = JBool(TRUE)

\* C28: every response body built by ok() or fail(), on every path of
\* the handler, is accepted when submitted as the payload of
\* validate_envelope_contract.
C28_OwnOutputConforms ==
    (Done /\ (HasResult \/ HasError)) =>
        AcceptedBy(Answer("validate_envelope_contract", response.body))

\* C28 witness: the body of a validation failure, with its error items,
\* accepted as an envelope
C28_Witness ==
    /\ ValidationFailed /\ Is400
    /\ Len(ErrorItems) >= 2
    /\ AcceptedBy(Answer("validate_envelope_contract", response.body))

\* C29: the normalized output is a fixed point of the pipeline: for
\* every payload validate_saml_config accepts, the returned normalized
\* value submitted to validate_saml_config is accepted too, and comes
\* back as it was submitted.
C29_NormalizedFixedPoint ==
    (Done /\ ReqModeIs("validate_saml_config") /\ Accepted) =>
        LET again == Answer("validate_saml_config", NormalizedOf(response))
        IN /\ AcceptedBy(again)
           /\ NormalizedOf(again) = NormalizedOf(response)

\* C29 witness: an accepted payload that normalization changed, whose
\* normalized value comes back unchanged when submitted again
C29_Witness ==
    /\ Done /\ ReqModeIs("validate_saml_config") /\ Accepted
    /\ NormalizedOf(response) # ReqPayload
    /\ NormalizedOf(Answer("validate_saml_config", NormalizedOf(response)))
          = NormalizedOf(response)

EmptyDomains ==
    Done /\ SamlMode /\ IsObj(ReqPayload)
         /\ Get(ReqPayload, "domains") = JArr(<< >>)

\* C30: a SAML config whose domains list is empty is answered 400
\* INVALID_ARGUMENT, with a minItems item at domains, also when every
\* other field is valid; every accepted config, audited or not, has at
\* least one domain binding.
C30_DomainsNotEmpty ==
    /\ EmptyDomains =>
          Is400 /\ ItemAt(<<"payload", "/domains">>, "minItems")
    /\ AcceptedSaml =>
          /\ IsArr(Get(ReqPayload, "domains"))
          /\ Len(Get(ReqPayload, "domains").a) >= 1
          /\ Len(Get(NormalizedOf(response), "domains").a) >= 1

\* C30 witness: the Quick test config with its domains list emptied,
\* rejected for that alone
C30_Witness ==
    /\ EmptyDomains
    /\ ReqPayload = Put(BaseConfig, "domains", JArr(<< >>))
    /\ Is400
    /\ Len(ErrorItems) = 1
    /\ ItemAt(<<"payload", "/domains">>, "minItems")

====
